---------------------------- MODULE Spec2Model ----------------------------
(***************************************************************************)
(* News intelligence briefing: the four leaf tools (news digest,           *)
(* sentiment, fact-check, trend) and the workflow step that sequences      *)
(* them (src/mastra/agents/news-summarizer).                               *)
(*                                                                         *)
(* Text is a sequence of characters, each a one-character string.  A       *)
(* longer string inside a text stands for a fixed stretch of the source's  *)
(* literal text that holds no quote character, no line break and is not    *)
(* blank (for instance the body of the news fallback template).            *)
(* Fractional numbers are fixed-point integers in units of 1/Unit.         *)
(***************************************************************************)
EXTENDS Integers, Sequences, FiniteSets, TLC

VARIABLES
    apiKey,            \* process.env.PERPLEXITY_API_KEY is set
    inputData,         \* the workflow step's inputData
    stage,             \* what the workflow run is awaiting
    log,               \* the stage markers the run has written, in order
    error,             \* the error the top-level catch received
    newsResult,
    sentimentResult,
    factCheckCalls,    \* the fact-check calls of Promise.all, in call order
    factCheckResults,
    trendResult,
    briefing,          \* what execute returned
    requests,          \* outbound HTTP POSTs, by tool, in order
    toolCalls,         \* leaf steps the workflow called, in order
    direct,            \* a tool invoked directly by a caller (test script, agent)
    runs               \* the local variables of each of several concurrent
                       \* invocations of execute

vars == <<runs, apiKey, inputData, stage, log, error, newsResult, sentimentResult,
          factCheckCalls, factCheckResults, trendResult, briefing, requests,
          toolCalls, direct>>

---------------------------------------------------------------------------
(* Text *)

Unit == 100 * 100

DQ == "\""
SQ == "'"
NL == "\n"

IsSpace(c) == c \in {" ", NL, "\t"}
IsQuote(c) == c \in {DQ, SQ}

\* !s || s.trim().length === 0
IsBlank(s) == \A i \in 1..Len(s) : IsSpace(s[i])

\* String.prototype.trim
RECURSIVE TrimLeft(_)
TrimLeft(s) == IF s # << >> /\ IsSpace(Head(s)) THEN TrimLeft(Tail(s)) ELSE s

RECURSIVE TrimRight(_)
TrimRight(s) ==
    IF s # << >> /\ IsSpace(s[Len(s)]) THEN TrimRight(SubSeq(s, 1, Len(s) - 1))
    ELSE s

Trim(s) == TrimRight(TrimLeft(s))

Upper == <<"A", "B", "C", "D", "E", "F", "G", "H", "I", "J", "K", "L", "M",
           "N", "O", "P", "Q", "R", "S", "T", "U", "V", "W", "X", "Y", "Z">>
Lower == <<"a", "b", "c", "d", "e", "f", "g", "h", "i", "j", "k", "l", "m",
           "n", "o", "p", "q", "r", "s", "t", "u", "v", "w", "x", "y", "z">>

\* one character of String.prototype.toLowerCase
LowerOf == [c \in {Upper[k] : k \in 1..Len(Upper)} |->
               Lower[CHOOSE k \in 1..Len(Upper) : Upper[k] = c]]

LowerChar(c) == IF c \in DOMAIN LowerOf THEN LowerOf[c] ELSE c

ToLowerCase(s) == [i \in 1..Len(s) |-> LowerChar(s[i])]

\* s.includes(w)
Includes(s, w) ==
    \E i \in 1..(Len(s) - Len(w) + 1) : SubSeq(s, i, i + Len(w) - 1) = w

Digits == <<"0", "1", "2", "3", "4", "5", "6", "7", "8", "9">>
IsDigit(c) == c \in {Digits[k] : k \in 1..Len(Digits)}
DigitValue(c) == (CHOOSE k \in 1..Len(Digits) : Digits[k] = c) - 1

---------------------------------------------------------------------------
(* Regular expressions, as the JavaScript engine matches them: a pattern   *)
(* is a sequence of items, each a character class repeated min..max times  *)
(* (greedy, with backtracking), the characters it matches added to         *)
(* capture group grp (0: none).                                            *)

Many == 1000 * 1000

Item(kind, ch, min, max, grp) ==
    [kind |-> kind, ch |-> ch, min |-> min, max |-> max, grp |-> grp]

\* a literal, matched ignoring case (flag i); w is written in lower case
Lit(w) == [k \in 1..Len(w) |-> Item("lit", w[k], 1, 1, 0)]
Star(kind, grp) == <<Item(kind, "", 0, Many, grp)>>
Plus(kind, grp) == <<Item(kind, "", 1, Many, grp)>>
Opt(c, grp) == <<Item("lit", c, 0, 1, grp)>>
One(kind, grp) == <<Item(kind, "", 1, 1, grp)>>

InClass(it, c) ==
    CASE it.kind = "lit" -> LowerChar(c) = it.ch
      [] it.kind = "space" -> IsSpace(c)                    \* \s
      [] it.kind = "digit" -> IsDigit(c)                    \* \d
      [] it.kind = "notnl" -> c # NL                        \* [^\n]
      [] it.kind = "quote" -> IsQuote(c)                    \* ["']
      [] it.kind = "notquote" -> ~IsQuote(c)                \* [^"']

Least(S) == CHOOSE n \in S : \A m \in S : n <= m

\* how many characters from s[i] on the item can take at most
Room(it, s, i) == IF it.max < Len(s) - i + 1 THEN it.max ELSE Len(s) - i + 1

RunLength(it, s, i) ==
    Least({n \in 0..Room(it, s, i) : n = Room(it, s, i) \/ ~InClass(it, s[i + n])})

\* A match is a record of its place and its capture groups; the result of
\* a search is the set holding the match, empty when there is none (null).
Whole(i) == [start |-> i, end |-> i, caps |-> << << >>, << >> >>]

\* the match r of the items after one, with the characters w this item took
Grow(r, i, grp, w) ==
    [start |-> i, end |-> r.end,
     caps |-> IF grp = 0 THEN r.caps ELSE [r.caps EXCEPT ![grp] = w \o @]]

\* of the ways an item can be matched, the one taking the most characters
Greediest(ways) == {c \in ways : \A d \in ways : d.took <= c.took}

\* the items k.. of pat matched at s[i]: the first match in backtracking
\* order (each item takes the most characters the rest can still match
\* after), end being the index after it
RECURSIVE MatchHere(_, _, _, _)
MatchHere(pat, k, s, i) ==
    IF k > Len(pat) THEN {Whole(i)}
    ELSE {Grow(c.rest, i, pat[k].grp, SubSeq(s, i, i + c.took - 1)) :
             c \in Greediest(UNION {{[took |-> n, rest |-> r] :
                                       r \in MatchHere(pat, k + 1, s, i + n)} :
                                    n \in pat[k].min..RunLength(pat[k], s, i)})}

Leftmost(found) == {m \in found : \A q \in found : m.start <= q.start}

\* regex.exec from lastIndex i: the leftmost match at or after s[i]
Exec(pat, s, i) == Leftmost(UNION {MatchHere(pat, 1, s, p) : p \in i..Len(s)})

\* the match a search found
The(found) == CHOOSE m \in found : TRUE

\* every match of a g-flag pattern from lastIndex i on, left to right
RECURSIVE ExecAll(_, _, _)
RECURSIVE Following(_, _, _)
ExecAll(pat, s, i) == Following(pat, s, Exec(pat, s, i))

Following(pat, s, found) ==
    IF found = {} THEN << >>
    ELSE <<The(found)>>
         \o ExecAll(pat, s, IF The(found).end = The(found).start
                            THEN The(found).end + 1 ELSE The(found).end)

\* the text a match covers
Matched(s, r) == SubSeq(s, r.start, r.end - 1)

\* /["']([^"']+)["']/g
QuotedPattern == One("quote", 0) \o Plus("notquote", 1) \o One("quote", 0)

MatchedAll(s, matches) == [k \in 1..Len(matches) |-> Matched(s, matches[k])]

\* summary.match(/["']([^"']+)["']/g) || []
MatchQuoted(s) == MatchedAll(s, ExecAll(QuotedPattern, s, 1))

\* claim.replace(/["']/g, "")
StripQuotes(s) == SelectSeq(s, LAMBDA c : ~IsQuote(c))

\* a variant of slice that keeps the whole list
Unsliced(xs, n) == xs

\* xs.slice(0, n)
Slice(xs, n) == SubSeq(xs, 1, IF Len(xs) < n THEN Len(xs) ELSE n)

---------------------------------------------------------------------------
(* The completion endpoint's answer to one POST, as the tools read it *)

NoText == << >>

\* response.ok
Ok(status) == status \in 200..299

\* fetch rejected: no response at all
Rejected == [net |-> "rejected", status |-> 0, errorText |-> NoText,
             shape |-> "none", hasContent |-> FALSE, content |-> NoText]

\* a response with a non-2xx status and the body response.text() reads
ErrorResponse(status, errorText) ==
    [net |-> "response", status |-> status, errorText |-> errorText,
     shape |-> "none", hasContent |-> FALSE, content |-> NoText]

\* a 2xx response; shape says how far data.choices[0].message exists
\* ("unparseable": response.json() throws)
Body(shape, hasContent, content) ==
    [net |-> "response", status |-> 200, errorText |-> NoText,
     shape |-> shape, hasContent |-> hasContent, content |-> content]

Answer(content) == Body("message", TRUE, content)

MsgNoKey == <<"PERPLEXITY_API_KEY environment variable is not set">>
MsgTextEmpty == <<"Text input is empty or invalid">>
MsgClaimEmpty == <<"Claim input is empty or invalid">>
MsgTopicEmpty == <<"Topic input is empty or invalid">>

NoError == << >>

\* a variant that passes every status through with its body
StatusErrorUnclassified(prefix, r) ==
    <<prefix, ToString(r.status), " - ">> \o r.errorText

\* the error thrown for a non-2xx status
StatusError(prefix, r) ==
    IF r.status = 401
    THEN <<"Invalid Perplexity API key. Please check your PERPLEXITY_API_KEY environment variable.">>
    ELSE IF r.status = 429
    THEN <<"Rate limit exceeded. Please wait a moment and try again.">>
    ELSE IF r.status >= 500
    THEN <<"Perplexity API server error. Please try again later.">>
    ELSE <<prefix, ToString(r.status), " - ">> \o r.errorText

\* the error a tool throws between fetch and the use of the content, NoError
\* when it reaches the content; text is the content as a string
ResponseError(prefix, r, text) ==
    IF r.net = "rejected" THEN <<"fetch failed">>
    ELSE IF ~Ok(r.status) THEN StatusError(prefix, r)
    ELSE IF r.shape = "unparseable"       \* the SyntaxError of response.json()
    THEN <<"Unexpected token ", SQ, "<", SQ, " is not valid JSON">>
    ELSE IF r.shape # "message"
    THEN <<"Invalid response format from Perplexity API">>
    ELSE IF ~r.hasContent \/ IsBlank(text)
    THEN <<"Empty response from Perplexity API">>
    ELSE NoError

\* new Date().toISOString(), and its date part
Now == "2025-01-08T00:00:00.000Z"
Today == "2025-01-08"

---------------------------------------------------------------------------
(* newsTool *)

\* fromDate.toISOString().split("T")[0]
FromDate(timeRange) ==
    CASE timeRange = "today" -> "2025-01-07"
      [] timeRange = "week" -> "2025-01-01"
      [] timeRange = "month" -> "2024-12-08"
      [] OTHER -> "2024-01-08"

\* a variant of the fallback digest that names the topic without quotation
\* marks
fallbackSummaryBare(context, message) ==
    <<"Unable to fetch news for ">> \o context.topic
    \o <<" at this time. ", NL, NL,
         "No articles could be retrieved due to: ">> \o message

\* the template of the fallback digest (its emoji and bullets left out)
fallbackSummary(context, message) ==
    <<"Unable to fetch news for ", DQ>> \o context.topic
    \o <<DQ, " at this time. ", NL, NL,
         "SEARCH OVERVIEW", NL,
         "Total articles found: 0", NL,
         "Date range: ", FromDate(context.timeRange), " to ", Today, NL,
         "Language: ">> \o context.language
    \o <<NL, "Key themes identified: Unable to analyze", NL,
         "Geographic coverage: Unable to determine", NL, NL,
         "ARTICLE SUMMARIES", NL,
         "---------------------------------------", NL,
         "No articles could be retrieved due to: ">> \o message
    \o <<NL, NL, "TREND ANALYSIS", NL,
         "Overall sentiment: Unable to determine", NL,
         "Emerging patterns: No data available", NL,
         "Geographic focus: Unable to determine", NL,
         "Timeline: Unable to analyze", NL,
         "Contradictions: No data available", NL, NL,
         "KEY TAKEAWAYS", NL,
         "Most important development: Unable to determine", NL,
         "What to watch: Monitor for future developments", NL,
         "Reliability assessment: Low confidence due to data unavailability", NL,
         "Related topics: Unable to determine", NL, NL,
         "CONTEXT & VERIFICATION", NL,
         "Background context: Unable to provide context", NL,
         "Unverified claims: No claims to verify", NL,
         "Source diversity: No sources available", NL, NL,
         "Please try again later or check your API configuration.">>

NewsFallback(context, message) ==
    [topic |-> context.topic,
     summary |-> fallbackSummary(context, message),
     timestamp |-> Now,
     articleCount |-> 0,
     sources |-> <<"Error - No sources available">>,
     language |-> context.language]

\* a variant of newsTool without its credential check
NewsPrecheckNone(context, key) == NoError

\* what newsTool throws before it calls fetch
NewsPrecheck(context, key) == IF ~key THEN MsgNoKey ELSE NoError

\* newsTool's result once the endpoint has answered r
NewsRespond(context, r) ==
    LET e == ResponseError("Perplexity API error: ", r, r.content)
    IN  IF e # NoError THEN NewsFallback(context, e)
        ELSE [topic |-> context.topic,
              summary |-> r.content,
              timestamp |-> Now,
              articleCount |-> context.count,
              sources |-> <<"Perplexity AI Analysis">>,
              language |-> context.language]

---------------------------------------------------------------------------
(* sentimentTool *)

EmotionNames == <<"joy", "anger", "fear", "sadness", "surprise", "trust">>

\* A parsed JSON object is a function from the keys it holds to their values.
Has(o, k) == k \in DOMAIN o

\* the content of a sentiment answer: its characters and what JSON.parse
\* makes of them (valid: it parses; isNull: to null; obj: to this object,
\* a number or string parsing to a value without properties)
Doc(chars, valid, isNull, obj) ==
    [chars |-> chars, valid |-> valid, isNull |-> isNull, obj |-> obj]

NoDoc == Doc(NoText, FALSE, FALSE, << >>)

\* a variant in which a parse failure gives the values of the hard failure
ParseDefaultZeroed ==
    [overallSentiment |-> "neutral",
     sentimentScore |-> 0,
     emotions |-> [joy |-> 0, anger |-> 0, fear |-> 0, sadness |-> 0,
                   surprise |-> 0, trust |-> 0],
     subjectivity |-> Unit \div 2,
     confidence |-> 0,
     keyPhrases |-> << >>,
     summary |-> <<"Sentiment analysis failed: parsing error">>]

\* the result substituted when JSON.parse throws
ParseDefault ==
    [overallSentiment |-> "neutral",
     sentimentScore |-> 0,
     emotions |-> [joy |-> Unit \div 2, anger |-> Unit \div 10,
                   fear |-> Unit \div 10, sadness |-> Unit \div 10,
                   surprise |-> Unit \div 10, trust |-> Unit \div 2],
     subjectivity |-> Unit \div 2,
     confidence |-> (7 * Unit) \div 10,
     keyPhrases |-> << >>,
     summary |-> <<"Sentiment analysis completed with fallback values due to parsing error.">>]

SentimentFallback(message) ==
    [overallSentiment |-> "neutral",
     sentimentScore |-> 0,
     emotions |-> [joy |-> 0, anger |-> 0, fear |-> 0, sadness |-> 0,
                   surprise |-> 0, trust |-> 0],
     subjectivity |-> Unit \div 2,
     confidence |-> 0,
     keyPhrases |-> << >>,
     summary |-> <<"Sentiment analysis failed: ">> \o message
                 \o <<". Using neutral fallback values.">>]

\* what sentimentTool throws before it calls fetch
SentimentPrecheck(context, key) ==
    IF IsBlank(context.text) THEN MsgTextEmpty
    ELSE IF ~key THEN MsgNoKey
    ELSE NoError

\* !result.overallSentiment || !result.emotions (an empty string is falsy;
\* an object, even an empty one, is truthy)
InvalidStructure(result) ==
    \/ ~Has(result, "overallSentiment")
    \/ result.overallSentiment = ""
    \/ ~Has(result, "emotions")

\* sentimentTool's result once the endpoint has answered r
SentimentRespond(context, r) ==
    LET e == ResponseError("Sentiment analysis API error: ", r, r.content.chars)
        doc == r.content
        result == IF doc.valid THEN doc.obj ELSE ParseDefault
    IN  IF e # NoError THEN SentimentFallback(e)
        ELSE IF doc.valid /\ doc.isNull      \* the TypeError of reading null
        THEN SentimentFallback(<<"Cannot read properties of null (reading ", SQ,
                                 "overallSentiment", SQ, ")">>)
        ELSE IF InvalidStructure(result)
        THEN SentimentFallback(<<"Invalid sentiment analysis result structure">>)
        ELSE result

---------------------------------------------------------------------------
(* factCheckTool *)

\* a literal whose characters are captured in group grp
LitIn(w, grp) == [k \in 1..Len(w) |-> Item("lit", w[k], 1, 1, grp)]

VerdictWords ==
    [true |-> <<"t", "r", "u", "e">>,
     mostly_true |-> <<"m", "o", "s", "t", "l", "y", "_", "t", "r", "u", "e">>,
     mixed |-> <<"m", "i", "x", "e", "d">>,
     mostly_false |-> <<"m", "o", "s", "t", "l", "y", "_", "f", "a", "l", "s", "e">>,
     false |-> <<"f", "a", "l", "s", "e">>,
     unverifiable |-> <<"u", "n", "v", "e", "r", "i", "f", "i", "a", "b", "l", "e">>]

\* /verdict:\s*(true|mostly_true|mixed|mostly_false|false|unverifiable)/i
\* with the alternative v
VerdictPatterns ==
    [v \in DOMAIN VerdictWords |->
        Lit(<<"v", "e", "r", "d", "i", "c", "t", ":">>) \o Star("space", 0)
        \o LitIn(VerdictWords[v], 1)]

\* a variant of the verdict search that keeps the last occurrence
VerdictMatchLast(s) ==
    {m \in UNION {UNION {MatchHere(VerdictPatterns[v], 1, s, p) : p \in 1..Len(s)} :
                     v \in DOMAIN VerdictWords} :
        \A q \in UNION {UNION {MatchHere(VerdictPatterns[v], 1, s, p) : p \in 1..Len(s)} :
                         v \in DOMAIN VerdictWords} : q.start <= m.start}

\* analysisText.match(verdict pattern): the leftmost place where an
\* alternative matches.  No alternative starts with white space and none is
\* a prefix of another, so at one place at most one of them matches
VerdictMatch(s) ==
    Leftmost(UNION {Exec(VerdictPatterns[v], s, 1) : v \in DOMAIN VerdictWords})

\* verdictMatch[1].toLowerCase(), as the enum value it spells
VerdictOf(w) ==
    CHOOSE v \in DOMAIN VerdictWords : VerdictWords[v] = ToLowerCase(w)

\* /confidence:\s*(\d+\.?\d*)/i
ConfidencePattern ==
    Lit(<<"c", "o", "n", "f", "i", "d", "e", "n", "c", "e", ":">>) \o Star("space", 0)
    \o Plus("digit", 1) \o Opt(".", 1) \o Star("digit", 1)

\* the number a digit string spells
RECURSIVE DigitsValue(_)
DigitsValue(w) ==
    IF w = << >> THEN 0
    ELSE 10 * DigitsValue(SubSeq(w, 1, Len(w) - 1)) + DigitValue(w[Len(w)])

Pow10(n) == IF n = 0 THEN 1 ELSE IF n = 1 THEN 10 ELSE 100

\* parseFloat(w) / 100 in units of 1/Unit, for w = digits [. digits]; exact
\* for up to two fractional digits, further digits are cut
ParseFloatPercent(w) ==
    LET dot == IF \E i \in 1..Len(w) : w[i] = "."
               THEN CHOOSE i \in 1..Len(w) : w[i] = "." ELSE Len(w) + 1
        whole == SubSeq(w, 1, dot - 1)
        frac == Slice(SubSeq(w, dot + 1, Len(w)), 2)
    IN  DigitsValue(whole) * (Unit \div 100)
        + (DigitsValue(frac) * (Unit \div 100)) \div Pow10(Len(frac))

\* /source:\s*([^\n]+)\s*-\s*([^\n]+)/gi
sourcePattern ==
    Lit(<<"s", "o", "u", "r", "c", "e", ":">>) \o Star("space", 0) \o Plus("notnl", 1)
    \o Star("space", 0) \o Lit(<<"-">>) \o Star("space", 0) \o Plus("notnl", 2)

\* /related claim[s]?:\s*([^\n]+)/gi
relatedPattern ==
    Lit(<<"r", "e", "l", "a", "t", "e", "d", " ", "c", "l", "a", "i", "m">>) \o Opt("s", 0) \o Lit(<<":">>)
    \o Star("space", 0) \o Plus("notnl", 1)

\* the evidence item pushed for one match of sourcePattern
EvidenceItem(m) ==
    [source |-> Trim(m.caps[1]),
     supporting |-> \/ Includes(ToLowerCase(m.caps[2]),
                                <<"s", "u", "p", "p", "o", "r", "t">>)
                    \/ Includes(ToLowerCase(m.caps[2]),
                                <<"c", "o", "n", "f", "i", "r", "m">>),
     quote |-> Trim(m.caps[2]),
     credibility |-> (8 * Unit) \div 10]

FactCheckFallback(context, message) ==
    [claim |-> context.claim,
     verdict |-> "unverifiable",
     confidence |-> 0,
     evidence |-> << >>,
     explanation |-> <<"Fact-checking failed: ">> \o message
                     \o <<". Unable to verify this claim at this time.">>,
     relatedClaims |-> << >>,
     checkDate |-> Now]

\* what factCheckTool throws before it calls fetch
FactCheckPrecheck(context, key) ==
    IF IsBlank(context.claim) THEN MsgClaimEmpty
    ELSE IF ~key THEN MsgNoKey
    ELSE NoError

\* a variant that lists the evidence last match first
EvidenceReversed(matches) ==
    [k \in 1..Len(matches) |-> EvidenceItem(matches[Len(matches) + 1 - k])]

Evidence(matches) == [k \in 1..Len(matches) |-> EvidenceItem(matches[k])]

Related(matches) == [k \in 1..Len(matches) |-> Trim(matches[k].caps[1])]

\* verdictMatch ? verdictMatch[1].toLowerCase() : "unverifiable"
VerdictFrom(verdictMatch) ==
    IF verdictMatch # {} THEN VerdictOf(The(verdictMatch).caps[1])
    ELSE "unverifiable"

\* confidenceMatch ? parseFloat(confidenceMatch[1]) / 100 : 0.5
ConfidenceFrom(confidenceMatch) ==
    IF confidenceMatch # {} THEN ParseFloatPercent(The(confidenceMatch).caps[1])
    ELSE Unit \div 2

\* what factCheckTool reads out of the answer's text
FactCheckParse(analysisText) ==
    [verdict |-> VerdictFrom(VerdictMatch(analysisText)),
     confidence |-> ConfidenceFrom(Exec(ConfidencePattern, analysisText, 1)),
     evidence |-> Evidence(ExecAll(sourcePattern, analysisText, 1)),
     relatedClaims |-> Related(ExecAll(relatedPattern, analysisText, 1))]

\* the answers the endpoint gives to a fact-check prompt
FactCheckTexts ==
    {<<"V", "e", "r", "d", "i", "c", "t", ":", " ", "T", "R", "U", "E", "\n", "C", "o", "n", "f", "i", "d", "e", "n", "c", "e", ":", " ", "9", "0", "\n", "S", "o", "u", "r", "c", "e", ":", " ", "A", "P", " ", "-", " ", "c", "o", "n", "f", "i", "r", "m", "s", " ", "i", "t">>,
     <<"v", "e", "r", "d", "i", "c", "t", ":", " ", "f", "a", "l", "s", "e">>,
     <<"V", "e", "r", "d", "i", "c", "t", ":", "m", "o", "s", "t", "l", "y", "_", "f", "a", "l", "s", "e", " ", "C", "o", "n", "f", "i", "d", "e", "n", "c", "e", ":", " ", "7", "2">>,
     <<"N", "o", " ", "v", "e", "r", "d", "i", "c", "t", " ", "c", "a", "n", " ", "b", "e", " ", "g", "i", "v", "e", "n", ".">>}

\* the most source lines a generated answer holds
MaxSources == 6

\* an answer of n source lines, "Source: s<k> - CONFIRMS it" on the odd
\* lines and "source:s<k>-denies it" on the even ones
RECURSIVE SourceLines(_)
SourceLines(n) ==
    IF n = 0 THEN << >>
    ELSE SourceLines(n - 1)
         \o (IF n = 1 THEN << >> ELSE <<NL>>)
         \o (IF n % 2 = 1
             THEN <<"S", "o", "u", "r", "c", "e", ":", " ">> \o <<"s", ToString(n)>> \o <<" ", "-", " ", "C", "O", "N", "F", "I", "R", "M", "S", " ", "i", "t">>
             ELSE <<"s", "o", "u", "r", "c", "e", ":">> \o <<"s", ToString(n)>> \o <<"-", "d", "e", "n", "i", "e", "s", " ", "i", "t">>)

\* answers that carry the numbers, verdicts and source lines the parser is
\* written for
FactCheckProbes ==
    {<<"C", "o", "n", "f", "i", "d", "e", "n", "c", "e", ":", " ", "1", "5", "0">>,      \* Confidence: 150
     <<"C", "o", "n", "f", "i", "d", "e", "n", "c", "e", ":", " ", "0", ".", "9">>,      \* Confidence: 0.9
     \* Verdict: mostly_false / Confidence: 72
     <<"V", "e", "r", "d", "i", "c", "t", ":", " ", "m", "o", "s", "t", "l", "y", "_", "f", "a", "l", "s", "e", "\n", "C", "o", "n", "f", "i", "d", "e", "n", "c", "e", ":", " ", "7", "2">>,
     \* Confidence: 5% verdict: maybe. verdict: Mixed, VERDICT: true
     <<"C", "o", "n", "f", "i", "d", "e", "n", "c", "e", ":", " ", "5", "%", " ", "v", "e", "r", "d", "i", "c", "t", ":", " ", "m", "a", "y", "b", "e", ".", " ", "v", "e", "r", "d", "i", "c", "t", ":", " ", "M", "i", "x", "e", "d", ",", " ", "V", "E", "R", "D", "I", "C", "T", ":", " ", "t", "r", "u", "e">>,
     \* Source: Reuters - confirms the claim / Source: AP - denies involvement
     <<"S", "o", "u", "r", "c", "e", ":", " ", "R", "e", "u", "t", "e", "r", "s", " ", "-", " ", "c", "o", "n", "f", "i", "r", "m", "s", " ", "t", "h", "e", " ", "c", "l", "a", "i", "m", "\n", "S", "o", "u", "r", "c", "e", ":", " ", "A", "P", " ", "-", " ", "d", "e", "n", "i", "e", "s", " ", "i", "n", "v", "o", "l", "v", "e", "m", "e", "n", "t">>}
    \cup {SourceLines(n) : n \in 1..MaxSources}

FactCheckAnswers == FactCheckTexts \cup FactCheckProbes

\* what the tool reads out of each of these answers
FactCheckReadings == [t \in FactCheckAnswers |-> FactCheckParse(t)]

\* factCheckTool's result once the endpoint has answered r
FactCheckAnswer(context, analysisText, parsed) ==
    [claim |-> context.claim,
     verdict |-> parsed.verdict,
     confidence |-> parsed.confidence,
     evidence |-> Slice(parsed.evidence, 5),
     explanation |-> analysisText,
     relatedClaims |-> Slice(parsed.relatedClaims, 3),
     checkDate |-> Now]

FactCheckRespond(context, r) ==
    IF ResponseError("Fact-check API error: ", r, r.content) # NoError
    THEN FactCheckFallback(context,
                           ResponseError("Fact-check API error: ", r, r.content))
    ELSE FactCheckAnswer(context, r.content, FactCheckReadings[r.content])

---------------------------------------------------------------------------
(* trendTool *)


\* a variant that scales the draw to 0..99 before adding 20
MomentumWide(draw) == (draw * 100) \div Unit + 20

\* A draw of Math.random() is a fixed-point number in 0..Unit-1.
\* Math.floor(Math.random() * 60) + 20
Momentum(draw) == (draw * 60) \div Unit + 20

\* the seven timeline points, oldest first (i = 6 .. 0); the key event is on
\* the point with i = 3
Timeline(draw) ==
    [k \in 1..7 |-> [date |-> <<"today-", ToString(7 - k)>>,
                     intensity |-> draw * 100,
                     keyEvent |-> IF 7 - k = 3 THEN "Major development" ELSE ""]]

\* a variant that looks for "volatile" before "declining"
TrendDirectionVolatileFirst(analysisText) ==
    IF Includes(ToLowerCase(analysisText), <<"r", "i", "s", "i", "n", "g">>) THEN "rising"
    ELSE IF Includes(ToLowerCase(analysisText), <<"v", "o", "l", "a", "t", "i", "l", "e">>) THEN "volatile"
    ELSE IF Includes(ToLowerCase(analysisText), <<"d", "e", "c", "l", "i", "n", "i", "n", "g">>) THEN "declining"
    ELSE "stable"

\* a variant that looks for "declining" before "rising"
TrendDirectionDecliningFirst(analysisText) ==
    IF Includes(ToLowerCase(analysisText), <<"d", "e", "c", "l", "i", "n", "i", "n", "g">>) THEN "declining"
    ELSE IF Includes(ToLowerCase(analysisText), <<"r", "i", "s", "i", "n", "g">>) THEN "rising"
    ELSE IF Includes(ToLowerCase(analysisText), <<"v", "o", "l", "a", "t", "i", "l", "e">>) THEN "volatile"
    ELSE "stable"

\* the trend direction read from the analysis text
TrendDirection(analysisText) ==
    IF Includes(ToLowerCase(analysisText), <<"r", "i", "s", "i", "n", "g">>) THEN "rising"
    ELSE IF Includes(ToLowerCase(analysisText),
                     <<"d", "e", "c", "l", "i", "n", "i", "n", "g">>) THEN "declining"
    ELSE IF Includes(ToLowerCase(analysisText),
                     <<"v", "o", "l", "a", "t", "i", "l", "e">>) THEN "volatile"
    ELSE "stable"

TrendFallback(context, message) ==
    [topic |-> context.topic,
     timeframe |-> context.timeframe,
     trendDirection |-> "stable",
     momentum |-> 0,
     keyDrivers |-> << >>,
     predictions |-> << >>,
     relatedTopics |-> << >>,
     visualData |-> [timeline |-> << >>],
     analysis |-> <<"Trend analysis failed: ">> \o message
                  \o <<". Unable to analyze trends for ", DQ>> \o context.topic
                  \o <<DQ, " at this time.">>]

\* what trendTool throws before it calls fetch
TrendPrecheck(context, key) ==
    IF IsBlank(context.topic) THEN MsgTopicEmpty
    ELSE IF ~key THEN MsgNoKey
    ELSE NoError

\* trendTool's result once the endpoint has answered r, with the draw of
\* Math.random() this call makes
TrendRespond(context, r, draw) ==
    LET e == ResponseError("Trend analysis API error: ", r, r.content)
        analysisText == r.content
    IN  IF e # NoError THEN TrendFallback(context, e)
        ELSE [topic |-> context.topic,
              timeframe |-> context.timeframe,
              trendDirection |-> TrendDirection(analysisText),
              momentum |-> Momentum(draw),
              keyDrivers |-> Slice(<<"Public interest surge",
                                     "Media coverage increase",
                                     "Policy changes",
                                     "Market dynamics">>, 3),
              predictions |->
                  <<[scenario |-> "Continued growth in public interest",
                     probability |-> (75 * Unit) \div 100,
                     timeframe |-> "Next 2 weeks", impact |-> "high"],
                    [scenario |-> "Stabilization of current trends",
                     probability |-> (6 * Unit) \div 10,
                     timeframe |-> "Next month", impact |-> "medium"],
                    [scenario |-> "Potential policy response",
                     probability |-> (4 * Unit) \div 10,
                     timeframe |-> "Next quarter", impact |-> "high"]>>,
              relatedTopics |->
                  <<[topic |-> "Economic impact",
                     correlation |-> (8 * Unit) \div 10,
                     relationship |-> "Direct correlation with market trends"],
                    [topic |-> "Policy developments",
                     correlation |-> (6 * Unit) \div 10,
                     relationship |-> "Influences regulatory environment"],
                    [topic |-> "Public opinion",
                     correlation |-> (7 * Unit) \div 10,
                     relationship |-> "Drives media coverage"]>>,
              visualData |-> [timeline |-> Timeline(draw)],
              analysis |-> analysisText]

---------------------------------------------------------------------------
(* A tool's execute as a whole: what it returns or throws, given the       *)
(* endpoint's answer r to the request it makes (if it makes one).  The     *)
(* destructuring of the context stands before the try block: with no       *)
(* context it throws a TypeError that nothing catches.                     *)

Returned(value) == [raised |-> FALSE, value |-> value]
\* a thrown Error, with its message
Thrown(message) == [raised |-> TRUE, value |-> [message |-> message]]

MsgNoContext == <<"Cannot destructure property of undefined">>

NewsExecute(context, key, r) ==
    IF ~context.present THEN Thrown(MsgNoContext)
    ELSE IF NewsPrecheck(context, key) # NoError
    THEN Returned(NewsFallback(context, NewsPrecheck(context, key)))
    ELSE Returned(NewsRespond(context, r))

SentimentExecute(context, key, r) ==
    IF ~context.present THEN Thrown(MsgNoContext)
    ELSE IF SentimentPrecheck(context, key) # NoError
    THEN Returned(SentimentFallback(SentimentPrecheck(context, key)))
    ELSE Returned(SentimentRespond(context, r))

FactCheckExecute(context, key, r) ==
    IF ~context.present THEN Thrown(MsgNoContext)
    ELSE IF FactCheckPrecheck(context, key) # NoError
    THEN Returned(FactCheckFallback(context, FactCheckPrecheck(context, key)))
    ELSE Returned(FactCheckRespond(context, r))

\* a variant of trendTool.execute whose catch covers the fetch alone
TrendExecuteUncaught(context, key, r, draw) ==
    IF ~context.present THEN Thrown(MsgNoContext)
    ELSE IF TrendPrecheck(context, key) # NoError
    THEN Thrown(TrendPrecheck(context, key))
    ELSE Returned(TrendRespond(context, r, draw))

TrendExecute(context, key, r, draw) ==
    IF ~context.present THEN Thrown(MsgNoContext)
    ELSE IF TrendPrecheck(context, key) # NoError
    THEN Returned(TrendFallback(context, TrendPrecheck(context, key)))
    ELSE Returned(TrendRespond(context, r, draw))

ToolExecute(tool, context, key, r, draw) ==
    CASE tool = "news" -> NewsExecute(context, key, r)
      [] tool = "sentiment" -> SentimentExecute(context, key, r)
      [] tool = "fact-check" -> FactCheckExecute(context, key, r)
      [] tool = "trend" -> TrendExecute(context, key, r, draw)

\* what the tool throws before it calls fetch
ToolPrecheck(tool, context, key) ==
    CASE tool = "news" -> NewsPrecheck(context, key)
      [] tool = "sentiment" -> SentimentPrecheck(context, key)
      [] tool = "fact-check" -> FactCheckPrecheck(context, key)
      [] tool = "trend" -> TrendPrecheck(context, key)

\* whether the tool reaches its fetch call: the POST goes out
ToolFetches(tool, context, key) ==
    context.present /\ ToolPrecheck(tool, context, key) = NoError

---------------------------------------------------------------------------
(* The workflow step: the contexts it builds and the record it returns *)

NoResult == << >>

NoInput == [present |-> FALSE, topic |-> NoText, depth |-> "standard",
            language |-> <<"en">>, region |-> NoText]

Input(topic, depth, region) ==
    [present |-> TRUE, topic |-> topic, depth |-> depth,
     language |-> <<"en">>, region |-> region]

\* the context of the newsTool call
NewsContext(input) ==
    [present |-> TRUE,
     topic |-> input.topic,
     count |-> IF input.depth = "deep" THEN 10 ELSE 5,
     language |-> input.language,
     sortBy |-> "publishedAt",
     timeRange |-> IF input.depth = "deep" THEN "month" ELSE "week"]

\* the context of the sentimentTool call
SentimentContext(input, news) ==
    [present |-> TRUE,
     text |-> news.summary,
     context |-> <<"News about ">> \o input.topic]

\* the contexts of the factCheckTool calls: the first three quoted
\* stretches of the digest, their quote characters removed
ClaimContexts(input, news) ==
    LET claims == Slice(MatchQuoted(news.summary), 3)
    IN  [k \in 1..Len(claims) |->
            [present |-> TRUE,
             claim |-> StripQuotes(claims[k]),
             context |-> input.topic]]

\* the context of the trendTool call
TrendContext(input) ==
    [present |-> TRUE,
     topic |-> input.topic,
     timeframe |-> IF input.depth = "deep" THEN "month" ELSE "week",
     region |-> input.region]

\* o.k > x for a property that may be missing (undefined > x is false)
Exceeds(o, k, x) == Has(o, k) /\ o[k] > x

\* Math.round(x * 100) for x in units of 1/Unit
RoundPercent(x) == (x * 100 + Unit \div 2) \div Unit

\* a variant whose thresholds themselves trigger
riskLevelInclusive(sentiment) ==
    IF Has(sentiment.emotions, "fear") /\ sentiment.emotions.fear >= (6 * Unit) \div 10
    THEN "high"
    ELSE IF Has(sentiment.emotions, "anger") /\ sentiment.emotions.anger >= Unit \div 2
    THEN "medium"
    ELSE "low"

riskLevel(sentiment) ==
    IF Exceeds(sentiment.emotions, "fear", (6 * Unit) \div 10) THEN "high"
    ELSE IF Exceeds(sentiment.emotions, "anger", Unit \div 2) THEN "medium"
    ELSE "low"

publicMood(sentiment) ==
    IF Has(sentiment, "sentimentScore")
    THEN <<ToString(RoundPercent(sentiment.sentimentScore)), "% positive">>
    ELSE <<"NaN", "% positive">>

\* a variant whose filter lets the value 0.5 pass
emotionalDriversInclusive(sentiment) ==
    SelectSeq(EmotionNames,
              LAMBDA name : Has(sentiment.emotions, name)
                            /\ sentiment.emotions[name] >= Unit \div 2)

\* Object.entries(emotions).filter(value > 0.5).map(name)
emotionalDrivers(sentiment) ==
    SelectSeq(EmotionNames,
              LAMBDA name : Exceeds(sentiment.emotions, name, Unit \div 2))

\* r?.claim || "Unknown claim"
ClaimOf(r) == IF r.claim = NoText THEN <<"Unknown claim">> ELSE r.claim

\* a variant that lists every result's claim, whatever its verdict
ClaimsWithAny(results, verdicts) ==
    [k \in 1..Len(results) |-> ClaimOf(results[k])]

ClaimsWith(results, verdicts) ==
    LET kept == SelectSeq(results, LAMBDA r : r.verdict \in verdicts)
    IN  [k \in 1..Len(kept) |-> ClaimOf(kept[k])]

\* a variant that counts the verdict "mostly_false" too
misinformationRiskBroad(results) ==
    IF \E k \in 1..Len(results) : results[k].verdict \in {"false", "mostly_false"}
    THEN "high" ELSE "low"

misinformationRisk(results) ==
    IF \E k \in 1..Len(results) : results[k].verdict = "false"
    THEN "high" ELSE "low"

\* a variant that grades by the number of articles asked for
dataQualityByArticles(news) ==
    IF news.articleCount > 5 THEN "excellent"
    ELSE IF news.articleCount > 2 THEN "good"
    ELSE "fair"

dataQuality(news) ==
    IF Len(news.sources) > 5 THEN "excellent"
    ELSE IF Len(news.sources) > 2 THEN "good"
    ELSE "fair"

\* the record of step 5
Result(input, news, sentiment, factChecks, trend) ==
    [topic |-> input.topic,
     executiveSummary |->
        [keyFindings |->
            << <<"Primary sentiment: ", sentiment.overallSentiment>>,
               <<"Trend direction: ", trend.trendDirection>>,
               <<"Source diversity: ", ToString(Len(news.sources)), " sources">> >>,
         recommendedActions |-> <<"Monitor developing situation",
                                  "Prepare stakeholder communications",
                                  "Review risk mitigation strategies">>,
         riskLevel |-> riskLevel(sentiment)],
     newsAnalysis |->
        [summary |-> news.summary,
         sourceCount |-> news.articleCount,
         geographicScope |-> IF input.region # NoText THEN <<input.region>>
                             ELSE << <<"Global">> >>,
         timelineSummary |-> "Coverage spans recent developments"],
     sentimentAnalysis |->
        [overallSentiment |-> sentiment.overallSentiment,
         publicMood |-> publicMood(sentiment),
         emotionalDrivers |-> emotionalDrivers(sentiment),
         sentimentShift |-> "Analyzing temporal changes"],
     factChecking |->
        [verifiedClaims |-> ClaimsWith(factChecks, {"true", "mostly_true"}),
         disputedClaims |-> ClaimsWith(factChecks, {"false", "mostly_false"}),
         misinformationRisk |-> misinformationRisk(factChecks)],
     trendAnalysis |->
        [currentTrend |-> trend.trendDirection,
         momentum |-> trend.momentum,
         predictions |-> [k \in 1..Len(trend.predictions) |->
                             trend.predictions[k].scenario],
         relatedTrends |-> [k \in 1..Len(trend.relatedTopics) |->
                               trend.relatedTopics[k].topic]],
     strategicRecommendations |->
        <<[action |-> "Implement monitoring dashboard",
           priority |-> "immediate",
           rationale |-> "Early detection of sentiment shifts"],
          [action |-> "Develop response scenarios",
           priority |-> "short-term",
           rationale |-> "Prepare for predicted developments"],
          [action |-> "Engage stakeholder communication",
           priority |-> "immediate",
           rationale |-> "Address current sentiment and concerns"]>>,
     metadata |->
        [analysisDate |-> Now,
         confidence |-> (85 * Unit) \div 100,
         dataQuality |-> dataQuality(news)]]

\* a variant of the fallback topic without its default
EchoedTopic(input) == input.topic

\* inputData?.topic || "unknown"
FallbackTopic(input) ==
    IF input.present /\ input.topic # NoText THEN input.topic ELSE <<"unknown">>

\* the record the top-level catch returns
FallbackResult(input) ==
    [topic |-> FallbackTopic(input),
     executiveSummary |->
        [keyFindings |-> << <<"Analysis failed due to technical issues">> >>,
         recommendedActions |-> <<"Retry the analysis",
                                  "Check system configuration">>,
         riskLevel |-> "medium"],
     newsAnalysis |->
        [summary |-> <<"Unable to fetch news due to technical issues">>,
         sourceCount |-> 0,
         geographicScope |-> << <<"Unknown">> >>,
         timelineSummary |-> "Analysis failed"],
     sentimentAnalysis |->
        [overallSentiment |-> "neutral",
         publicMood |-> <<"Unable to determine">>,
         emotionalDrivers |-> << >>,
         sentimentShift |-> "Analysis failed"],
     factChecking |->
        [verifiedClaims |-> << >>,
         disputedClaims |-> << >>,
         misinformationRisk |-> "low"],
     trendAnalysis |->
        [currentTrend |-> "stable",
         momentum |-> 0,
         predictions |-> << >>,
         relatedTrends |-> << >>],
     strategicRecommendations |->
        <<[action |-> "Retry analysis",
           priority |-> "immediate",
           rationale |-> "Technical issues prevented completion"]>>,
     metadata |->
        [analysisDate |-> Now,
         confidence |-> 0,
         dataQuality |-> "limited"]]

---------------------------------------------------------------------------
(* Inputs: what callers pass and what the completion endpoint answers *)

\* the most quoted stretches a generated digest holds
MaxQuoted == 4

Topics == {NoText, <<" ">>, <<"A", "I">>, <<"A", "I", SQ, "s">>}

Inputs ==
    {NoInput}
    \cup {Input(t, "standard", NoText) : t \in Topics}
    \cup {Input(t, "deep", <<"E", "U">>) : t \in Topics}

\* a digest with n quoted stretches, each its own claim
RECURSIVE QuotedDigest(_)
QuotedDigest(n) ==
    IF n = 0 THEN <<"N", "e", "w", "s", ":">>
    ELSE QuotedDigest(n - 1) \o <<" ", DQ, "c", ToString(n), DQ>>

NewsTexts ==
    {QuotedDigest(n) : n \in 0..MaxQuoted}
    \cup {<<"i", "t", SQ, "s", " ", SQ, "A", "I", SQ>>,    \* it's 'AI'
          <<"x", DQ, " ", DQ>>}                            \* a blank quotation

\* failures of one POST, with the content values none (no content) and
\* blank (white space only) of the tool's content type
Failures(statuses, none, blank) ==
    {Rejected}
    \cup {ErrorResponse(st, t) : st \in statuses, t \in {NoText, <<DQ, "e", DQ>>}}
    \cup {Body(sh, FALSE, none) :
             sh \in {"unparseable", "no_choices", "empty_choices", "no_message",
                     "message"}}
    \cup {Answer(none), Answer(blank)}

Statuses == {302, 401, 404, 429, 500, 503}

Emotions(joy, anger, fear) ==
    [joy |-> joy, anger |-> anger, fear |-> fear, sadness |-> Unit \div 10,
     surprise |-> Unit \div 10, trust |-> Unit \div 5]

Sentiment(overall, score, emotions) ==
    [overallSentiment |-> overall, sentimentScore |-> score,
     emotions |-> emotions, subjectivity |-> Unit \div 2,
     confidence |-> (9 * Unit) \div 10, keyPhrases |-> << >>,
     summary |-> <<"The coverage is ", overall>>]

JsonDoc(obj) == Doc(<<"{", "}">>, TRUE, FALSE, obj)

DocProse == Doc(<<"O", "v", "e", "r", "a", "l", "l", " ", "p", "o", "s", "i", "t", "i", "v", "e", ".">>, FALSE, FALSE, << >>)
DocCalm ==
    JsonDoc(Sentiment("positive", (62 * Unit) \div 100,
                      Emotions((8 * Unit) \div 10, Unit \div 10, Unit \div 5)))
DocFearful ==
    JsonDoc(Sentiment("very_negative", 0 - (8 * Unit) \div 10,
                      Emotions(0, (9 * Unit) \div 10, (61 * Unit) \div 100)))
DocAngry ==
    JsonDoc(Sentiment("negative", 0 - Unit \div 2,
                      Emotions(Unit \div 2, (51 * Unit) \div 100, (6 * Unit) \div 10)))
DocNoEmotions == JsonDoc([overallSentiment |-> "positive"])
\* fear and anger on their thresholds
DocBoundary ==
    JsonDoc(Sentiment("neutral", 0,
                      Emotions(Unit \div 10, Unit \div 2, (6 * Unit) \div 10)))

SentimentDocs ==
    {DocProse, DocCalm, DocFearful, DocAngry, DocNoEmotions, DocBoundary,
     Doc(<<"n", "u", "l", "l">>, TRUE, TRUE, << >>),
     Doc(<<"5">>, TRUE, FALSE, << >>),
     JsonDoc([emotions |-> Emotions(0, 0, 0)]),
     JsonDoc(Sentiment("", 0, Emotions(0, 0, 0))),
     JsonDoc([overallSentiment |-> "negative", emotions |-> << >>])}

TrendTexts == {<<"I", "n", "t", "e", "r", "e", "s", "t", " ", "i", "s", " ", "R", "i", "s", "i", "n", "g", ".">>, <<"f", "l", "a", "t", ",", " ", "n", "o", "t", " ", "d", "e", "c", "l", "i", "n", "i", "n", "g">>, <<"v", "o", "l", "a", "t", "i", "l", "e">>,
               <<"s", "t", "e", "a", "d", "y">>}

\* answers that hold several of the keywords, or one inside another word
TrendProbes ==
    {<<"D", "e", "c", "l", "i", "n", "i", "n", "g", ",", " ", "t", "h", "e", "n", " ", "r", "i", "s", "i", "n", "g">>,
     <<"V", "o", "l", "a", "t", "i", "l", "e", " ", "a", "n", "d", " ", "D", "E", "C", "L", "I", "N", "I", "N", "G">>,
     <<"v", "o", "l", "a", "t", "i", "l", "e", " ", "b", "u", "t", " ", "R", "i", "s", "i", "n", "g">>,
     <<"a", " ", "s", "u", "r", "p", "r", "i", "s", "i", "n", "g", " ", "d", "i", "p">>,
     <<"V", "O", "L", "A", "T", "I", "L", "E">>}

TrendAnswers == TrendTexts \cup TrendProbes

\* the draws of Math.random() the runs take: the least and the greatest
Draws == {0, Unit - 1}

---------------------------------------------------------------------------
(* The workflow step performComprehensiveAnalysis.execute.  Each action is *)
(* the code that runs between two awaits.  An awaited tool call settles    *)
(* with what the tool's execute returns, or it rejects: the workflow's     *)
(* catch blocks are written for the call throwing.                         *)

MsgToolFault == <<"tool call rejected">>

NewsOutcomes ==
    {Thrown(MsgToolFault)}
    \cup {NewsExecute(NewsContext(inputData), apiKey, r) :
             r \in {Rejected, ErrorResponse(404, <<DQ, "e", DQ>>)}
                   \cup {Answer(t) : t \in NewsTexts}}

SentimentOutcomes ==
    {Thrown(MsgToolFault)}
    \cup {SentimentExecute(SentimentContext(inputData, newsResult), apiKey, r) :
             r \in {Rejected}
                   \cup {Answer(d) : d \in {DocProse, DocCalm, DocFearful,
                                            DocAngry, DocNoEmotions,
                                            DocBoundary}}}

FactCheckOutcomes(context) ==
    {Thrown(MsgToolFault)}
    \cup {FactCheckExecute(context, apiKey, r) :
             r \in {Rejected} \cup {Answer(t) : t \in FactCheckTexts}}

\* a trend call that never settles
TrendNeverSettles == {}

TrendOutcomes ==
    {Thrown(MsgToolFault)}
    \cup {TrendExecute(TrendContext(inputData), apiKey, r, d) :
             r \in {Rejected} \cup {Answer(t) : t \in TrendTexts}, d \in Draws}

\* a variant of a tool that sends its POST again after the first
RequestRetried(tool, fetches) == IF fetches THEN <<tool, tool>> ELSE << >>

\* the POST a tool call sends, if it sends one
Request(tool, fetches) == IF fetches THEN <<tool>> ELSE << >>

\* a variant of the top-level catch that rethrows: no record is returned
FailRaising(message) ==
    /\ error' = message
    /\ stage' = "failed"
    /\ log' = Append(log, "failed")
    /\ UNCHANGED briefing

\* the top-level catch: the run returns the fallback record
Fail(message) ==
    /\ error' = message
    /\ stage' = "failed"
    /\ log' = Append(log, "failed")
    /\ briefing' = FallbackResult(inputData)

\* step 4 begins: the trend tool is called
CallTrend ==
    /\ stage' = "analyzing-trends"
    /\ log' = Append(log, "analyzing-trends")
    /\ toolCalls' = Append(toolCalls, "trend")
    /\ requests' = requests
            \o Request("trend", ToolFetches("trend", TrendContext(inputData), apiKey))

\* execute is entered: the input is checked and the news tool called
Execute ==
    /\ stage = "start"
    /\ IF ~inputData.present
       THEN /\ Fail(<<"Input data required">>)
            /\ UNCHANGED <<toolCalls, requests>>
       ELSE /\ stage' = "fetching-news"
            /\ log' = Append(log, "fetching-news")
            /\ toolCalls' = Append(toolCalls, "news")
            /\ requests' = requests
                    \o Request("news", ToolFetches("news", NewsContext(inputData), apiKey))
            /\ UNCHANGED <<error, briefing>>
    /\ UNCHANGED <<runs, apiKey, inputData, newsResult, sentimentResult,
                   factCheckCalls, factCheckResults, trendResult, direct>>

\* the news call settles; the sentiment tool is called
NewsSettles ==
    /\ stage = "fetching-news"
    /\ \E o \in NewsOutcomes :
          IF o.raised
          THEN /\ Fail(<<"News fetch failed: ">> \o o.value.message)
               /\ UNCHANGED <<newsResult, toolCalls, requests>>
          ELSE /\ newsResult' = o.value
               /\ stage' = "analyzing-sentiment"
               /\ log' = Append(log, "analyzing-sentiment")
               /\ toolCalls' = Append(toolCalls, "sentiment")
               /\ requests' = requests
                       \o Request("sentiment",
                                  ToolFetches("sentiment",
                                      SentimentContext(inputData, o.value),
                                      apiKey))
               /\ UNCHANGED <<error, briefing>>
    /\ UNCHANGED <<runs, apiKey, inputData, sentimentResult, factCheckCalls,
                   factCheckResults, trendResult, direct>>

\* the fact-check calls of step 3, all started before the first await
StartedCalls(contexts) ==
    [k \in 1..Len(contexts) |->
        [context |-> contexts[k], state |-> "pending", value |-> NoResult]]

RECURSIVE FactCheckRequests(_)
FactCheckRequests(contexts) ==
    IF contexts = << >> THEN << >>
    ELSE Request("fact-check", ToolFetches("fact-check", Head(contexts), apiKey))
         \o FactCheckRequests(Tail(contexts))

\* the sentiment call settles; the claims are extracted and their
\* fact-checks started, or with no claim the trend tool is called
SentimentSettles ==
    /\ stage = "analyzing-sentiment"
    /\ \E o \in SentimentOutcomes :
          IF o.raised
          THEN /\ Fail(<<"Sentiment analysis failed: ">> \o o.value.message)
               /\ UNCHANGED <<sentimentResult, factCheckCalls, toolCalls, requests>>
          ELSE \E contexts \in {ClaimContexts(inputData, newsResult)} :
                   /\ sentimentResult' = o.value
                   /\ UNCHANGED <<error, briefing>>
                   /\ IF Len(contexts) > 0
                      THEN /\ factCheckCalls' = StartedCalls(contexts)
                           /\ stage' = "fact-checking"
                           /\ log' = Append(log, "fact-checking")
                           /\ toolCalls' = toolCalls
                                   \o [k \in 1..Len(contexts) |-> "fact-check"]
                           /\ requests' = requests \o FactCheckRequests(contexts)
                      ELSE /\ UNCHANGED factCheckCalls
                           /\ stage' = "analyzing-trends"
                           /\ log' = log \o <<"fact-checking", "analyzing-trends">>
                           /\ toolCalls' = Append(toolCalls, "trend")
                           /\ requests' = requests
                                   \o Request("trend",
                                              ToolFetches("trend", TrendContext(inputData),
                                                           apiKey))
    /\ UNCHANGED <<runs, apiKey, inputData, newsResult, factCheckResults,
                   trendResult, direct>>

\* how a call that settled with o ended
Settled(o) == IF o.raised THEN "raised" ELSE "returned"

\* what Promise.all does when call k settles with o while it is awaited:
\* it rejects at the first rejection and fulfils when every call has returned
Rejects(o) == o.raised
Fulfils(calls) == \A j \in 1..Len(calls) : calls[j].state = "returned"

Cleared(calls) == [j \in 1..Len(calls) |-> [calls[j] EXCEPT !.value = NoResult]]

\* a variant of the catch of step 3 that rethrows, as the other steps' do
FactCheckRethrown(calls) ==
    /\ Fail(<<"Fact-check failed: ">> \o MsgToolFault)
    /\ UNCHANGED <<factCheckResults, toolCalls, requests>>

\* a variant of the catch of step 3 that keeps what the other calls returned
KeptReturned(calls) ==
    /\ factCheckResults' =
           [j \in 1..Len(SelectSeq(calls, LAMBDA c : c.state = "returned")) |->
               SelectSeq(calls, LAMBDA c : c.state = "returned")[j].value]
    /\ CallTrend
    /\ UNCHANGED <<error, briefing>>

\* the catch of step 3: the fan-out's results are empty and the run goes on
FactCheckCaught(calls) ==
    /\ factCheckResults' = << >>
    /\ CallTrend
    /\ UNCHANGED <<error, briefing>>

\* fact-check call k settles.  While Promise.all is awaited, its rejection
\* or fulfilment resumes the run, which calls the trend tool; a call that
\* settles later is one nobody awaits
FactCheckSettles(k) ==
    /\ factCheckCalls[k].state = "pending"
    /\ \E o \in FactCheckOutcomes(factCheckCalls[k].context) :
       \E calls \in {[factCheckCalls EXCEPT
                         ![k].state = Settled(o),
                         ![k].value = IF stage = "fact-checking" /\ ~o.raised
                                      THEN o.value ELSE NoResult]} :
          IF stage = "fact-checking" /\ Rejects(o)
          THEN /\ factCheckCalls' = Cleared(calls)
               /\ FactCheckCaught(calls)
          ELSE IF stage = "fact-checking" /\ Fulfils(calls)
          THEN /\ factCheckCalls' = Cleared(calls)
               /\ factCheckResults' = [j \in 1..Len(calls) |-> calls[j].value]
               /\ CallTrend
               /\ UNCHANGED <<error, briefing>>
          ELSE /\ factCheckCalls' = calls
               /\ UNCHANGED <<factCheckResults, stage, log, toolCalls, requests,
                              error, briefing>>
    /\ UNCHANGED <<runs, apiKey, inputData, newsResult, sentimentResult,
                   trendResult, direct>>

\* the trend call settles; step 5 builds the record and execute returns
TrendSettles ==
    /\ stage = "analyzing-trends"
    /\ \E o \in TrendOutcomes :
          IF o.raised
          THEN /\ Fail(<<"Trend analysis failed: ">> \o o.value.message)
               /\ UNCHANGED trendResult
          ELSE /\ trendResult' = o.value
               /\ stage' = "done"
               /\ log' = log \o <<"structuring-result", "done">>
               /\ briefing' = Result(inputData, newsResult, sentimentResult,
                                     factCheckResults, o.value)
               /\ UNCHANGED error
    /\ UNCHANGED <<runs, apiKey, inputData, newsResult, sentimentResult,
                   factCheckCalls, factCheckResults, toolCalls, requests, direct>>

---------------------------------------------------------------------------
(* One tool called on its own, as the test script calls each of them: the  *)
(* call runs to its fetch (or returns before it), then the endpoint's      *)
(* answer settles it.                                                      *)

Tools == {"news", "sentiment", "fact-check", "trend"}

\* execute({}) : no context record
NoContext == [present |-> FALSE]

\* no answer: the call has not fetched
Unasked == [net |-> "none", status |-> 0, errorText |-> NoText,
            shape |-> "none", hasContent |-> FALSE, content |-> NoText]

Idle == [tool |-> "none", context |-> NoContext, state |-> "idle",
         response |-> Unasked, value |-> NoResult]

DirectContexts(tool) ==
    {NoContext}
    \cup CASE tool = "news" ->
                {NewsContext(Input(t, "standard", NoText)) : t \in Topics}
           [] tool = "sentiment" ->
                {[present |-> TRUE, text |-> t, context |-> <<"Technology news">>] :
                    t \in Topics}
           [] tool = "fact-check" ->
                {[present |-> TRUE, claim |-> t, context |-> NoText] : t \in Topics}
           [] tool = "trend" ->
                {TrendContext(Input(t, "standard", <<"global">>)) : t \in Topics}

DirectResponses(tool) ==
    CASE tool = "news" ->
            Failures(Statuses, NoText, <<" ">>) \cup {Answer(t) : t \in NewsTexts}
      [] tool = "sentiment" ->
            Failures(Statuses, NoDoc, Doc(<<" ">>, FALSE, FALSE, << >>))
            \cup {Answer(d) : d \in SentimentDocs}
      [] tool = "fact-check" ->
            Failures(Statuses, NoText, <<" ">>)
            \cup {Answer(t) : t \in FactCheckAnswers}
      [] tool = "trend" ->
            Failures(Statuses, NoText, <<" ">>) \cup {Answer(t) : t \in TrendAnswers}

\* tool.execute is called: it runs to its fetch, or ends before it
DirectCall(tool, context) ==
    /\ direct.state = "idle"
    /\ IF ToolFetches(tool, context, apiKey)
       THEN /\ direct' = [tool |-> tool, context |-> context, state |-> "awaiting",
                          response |-> Unasked, value |-> NoResult]
            /\ requests' = Append(requests, tool)
       ELSE LET o == ToolExecute(tool, context, apiKey, Unasked, 0)
            IN  /\ direct' = [tool |-> tool, context |-> context,
                              state |-> Settled(o), response |-> Unasked,
                              value |-> o.value]
                /\ UNCHANGED requests
    /\ UNCHANGED <<runs, apiKey, inputData, stage, log, error, newsResult,
                   sentimentResult, factCheckCalls, factCheckResults,
                   trendResult, briefing, toolCalls>>

\* the endpoint answers the awaited fetch and execute runs to its end
DirectSettle ==
    /\ direct.state = "awaiting"
    /\ \E r \in DirectResponses(direct.tool), draw \in Draws :
          LET o == ToolExecute(direct.tool, direct.context, apiKey, r, draw)
          IN  direct' = [direct EXCEPT !.state = Settled(o), !.response = r,
                                      !.value = o.value]
    /\ UNCHANGED <<runs, apiKey, inputData, stage, log, error, newsResult,
                   sentimentResult, factCheckCalls, factCheckResults,
                   trendResult, briefing, requests, toolCalls>>

Init ==
    /\ apiKey \in BOOLEAN
    /\ inputData \in Inputs
    /\ stage = "start"
    /\ log = << >>
    /\ error = NoError
    /\ newsResult = NoResult
    /\ sentimentResult = NoResult
    /\ factCheckCalls = << >>
    /\ factCheckResults = << >>
    /\ trendResult = NoResult
    /\ briefing = NoResult
    /\ requests = << >>
    /\ toolCalls = << >>
    /\ direct = Idle
    /\ runs = << >>

Next ==
    \/ Execute
    \/ NewsSettles
    \/ SentimentSettles
    \/ \E k \in 1..Len(factCheckCalls) : FactCheckSettles(k)
    \/ TrendSettles

Spec == Init /\ [][Next]_vars

\* Every call the run has made settles in the end, and the runtime enters
\* execute once it is invoked: each await resumes when its promise settles.
LiveInputs ==
    {NoInput, Input(<<"A", "I">>, "standard", NoText)}

LiveInit == Init /\ inputData \in LiveInputs

LiveSpec ==
    /\ LiveInit
    /\ [][Next]_vars
    /\ WF_vars(Execute)
    /\ WF_vars(NewsSettles)
    /\ WF_vars(SentimentSettles)
    /\ WF_vars(\E k \in 1..Len(factCheckCalls) : FactCheckSettles(k))
    /\ WF_vars(TrendSettles)

DirectInit ==
    /\ apiKey \in BOOLEAN
    /\ inputData = NoInput
    /\ stage = "start"
    /\ log = << >>
    /\ error = NoError
    /\ newsResult = NoResult
    /\ sentimentResult = NoResult
    /\ factCheckCalls = << >>
    /\ factCheckResults = << >>
    /\ trendResult = NoResult
    /\ briefing = NoResult
    /\ requests = << >>
    /\ toolCalls = << >>
    /\ direct = Idle
    /\ runs = << >>

DirectNext ==
    \/ \E tool \in Tools : \E context \in DirectContexts(tool) :
          DirectCall(tool, context)
    \/ DirectSettle

DirectSpec == DirectInit /\ [][DirectNext]_vars

---------------------------------------------------------------------------
(* Two invocations of execute in flight at once.  Everything execute       *)
(* writes is declared inside it (newsResult, sentimentResult,              *)
(* factCheckResults, trendResult, result), so each invocation has its own  *)
(* copy; the tools keep nothing between calls.  A step of an invocation is *)
(* the code between two awaits, Promise.all being awaited as one.          *)

NewRun(input) ==
    [inputData |-> input, stage |-> "start", newsResult |-> NoResult,
     sentimentResult |-> NoResult, claims |-> << >>, factCheckResults |-> << >>,
     trendResult |-> NoResult, briefing |-> NoResult, heard |-> << >>]

RunFailed(run) ==
    [run EXCEPT !.stage = "failed", !.briefing = FallbackResult(run.inputData)]

\* what Promise.all gives for the outcomes os of the calls: the catch of
\* step 3 turns a rejection into the empty list
Gathered(os) ==
    IF \E k \in 1..Len(os) : os[k].raised THEN << >>
    ELSE [k \in 1..Len(os) |-> os[k].value]

\* the invocation resumes with the outcome o of what it awaited
Resumed(run, o) ==
    CASE run.stage = "start" ->
            IF ~run.inputData.present THEN RunFailed(run)
            ELSE [run EXCEPT !.stage = "fetching-news"]
      [] run.stage = "fetching-news" ->
            IF o.raised THEN RunFailed(run)
            ELSE [run EXCEPT !.newsResult = o.value,
                             !.stage = "analyzing-sentiment"]
      [] run.stage = "analyzing-sentiment" ->
            IF o.raised THEN RunFailed(run)
            ELSE [run EXCEPT
                     !.sentimentResult = o.value,
                     !.claims = ClaimContexts(run.inputData, run.newsResult),
                     !.stage = IF ClaimContexts(run.inputData, run.newsResult) # << >>
                               THEN "fact-checking" ELSE "analyzing-trends"]
      [] run.stage = "fact-checking" ->
            [run EXCEPT !.factCheckResults = Gathered(o),
                        !.stage = "analyzing-trends"]
      [] run.stage = "analyzing-trends" ->
            IF o.raised THEN RunFailed(run)
            ELSE [run EXCEPT
                     !.trendResult = o.value,
                     !.briefing = Result(run.inputData, run.newsResult,
                                         run.sentimentResult,
                                         run.factCheckResults, o.value),
                     !.stage = "done"]

Advance(run, o) == [Resumed(run, o) EXCEPT !.heard = Append(run.heard, o)]

\* a variant in which newsResult is declared outside execute: one variable
\* for all invocations
SteppedShared(rs, i, o) ==
    [j \in DOMAIN rs |->
        IF j = i THEN Advance(rs[i], o)
        ELSE [rs[j] EXCEPT !.newsResult = Advance(rs[i], o).newsResult]]

\* invocation i resumes; the others keep their variables
Stepped(rs, i, o) == [rs EXCEPT ![i] = Advance(rs[i], o)]

\* how one fact-check call of an invocation can settle
ClaimOutcomes(context, key) ==
    {Thrown(MsgToolFault),
     FactCheckExecute(context, key, Answer(<<"v", "e", "r", "d", "i", "c", "t", ":", " ", "f", "a", "l", "s", "e">>))}

\* how what the invocation awaits can settle
RunOutcomes(run, key) ==
    CASE run.stage = "start" -> {NoResult}
      [] run.stage = "fetching-news" ->
            {Thrown(MsgToolFault)}
            \cup {NewsExecute(NewsContext(run.inputData), key, r) :
                     r \in {Rejected, Answer(QuotedDigest(2))}}
      [] run.stage = "analyzing-sentiment" ->
            {Thrown(MsgToolFault),
             SentimentExecute(SentimentContext(run.inputData, run.newsResult),
                              key, Answer(DocFearful))}
      [] run.stage = "fact-checking" ->
            {os \in [1..Len(run.claims) ->
                        UNION {ClaimOutcomes(run.claims[k], key) :
                                  k \in 1..Len(run.claims)}] :
                \A k \in 1..Len(run.claims) :
                    os[k] \in ClaimOutcomes(run.claims[k], key)}
      [] run.stage = "analyzing-trends" ->
            {Thrown(MsgToolFault)}
            \cup {TrendExecute(TrendContext(run.inputData), key,
                               Answer(<<"v", "o", "l", "a", "t", "i", "l", "e">>), d) :
                     d \in Draws}
      [] OTHER -> {}

RunStep(i) ==
    /\ \E o \in RunOutcomes(runs[i], apiKey) : runs' = Stepped(runs, i, o)
    /\ UNCHANGED <<apiKey, inputData, stage, log, error, newsResult,
                   sentimentResult, factCheckCalls, factCheckResults,
                   trendResult, briefing, requests, toolCalls, direct>>

PairInit ==
    /\ apiKey \in BOOLEAN
    /\ runs \in [1..2 -> {NewRun(i) : i \in {NoInput,
                                              Input(<<"A", "I">>, "standard", NoText),
                                              Input(<<"E", "V">>, "deep", <<"E", "U">>)}}]
    /\ inputData = NoInput
    /\ stage = "start"
    /\ log = << >>
    /\ error = NoError
    /\ newsResult = NoResult
    /\ sentimentResult = NoResult
    /\ factCheckCalls = << >>
    /\ factCheckResults = << >>
    /\ trendResult = NoResult
    /\ briefing = NoResult
    /\ requests = << >>
    /\ toolCalls = << >>
    /\ direct = Idle

PairNext == \E i \in DOMAIN runs : RunStep(i)

PairSpec == PairInit /\ [][PairNext]_vars

---------------------------------------------------------------------------
(* Properties of the workflow step, checked under Spec *)

Ended == stage \in {"done", "failed"}

Sections == {"topic", "executiveSummary", "newsAnalysis", "sentimentAnalysis",
             "factChecking", "trendAnalysis", "strategicRecommendations",
             "metadata"}

IsBriefing(b) == DOMAIN b = Sections

\* the run caught an error whose message starts with prefix
ErrorFrom(prefix) == error # NoError /\ Head(error) = prefix

\* some fact-check call of the run is in state st
AnyCall(st) == \E k \in 1..Len(factCheckCalls) : factCheckCalls[k].state = st

NoClaimsKept ==
    /\ briefing.factChecking.verifiedClaims = << >>
    /\ briefing.factChecking.disputedClaims = << >>

\* C1: the step never raises to its caller: whenever the run has ended, and
\* whenever an error was caught in it (absent input, or a raised news,
\* sentiment or trend call), execute has returned a briefing record.
C1_NeverRaises ==
    /\ Ended => IsBriefing(briefing)
    /\ error # NoError => stage = "failed" /\ IsBriefing(briefing)

C1_Witness ==
    /\ stage = "failed"
    /\ ErrorFrom("Sentiment analysis failed: ")
    /\ IsBriefing(briefing)

\* C2: under total failure (the credential is missing, so every leaf step
\* fails) the returned briefing has confidence 0, risk level "medium" and
\* data quality "limited".
C2_TotalFailureDefaults ==
    (Ended /\ ~apiKey) =>
        /\ briefing.metadata.confidence = 0
        /\ briefing.executiveSummary.riskLevel = "medium"
        /\ briefing.metadata.dataQuality = "limited"

\* C3: when the news call raises, the run returns the top-level fallback
\* record: the input's topic, or "unknown" when the topic is empty (and
\* "unknown" too when the input data is absent), confidence 0, data quality
\* "limited", and empty verifiedClaims, disputedClaims, predictions and
\* relatedTrends.
C3_NewsHardStop ==
    /\ ErrorFrom("News fetch failed: ") =>
          /\ stage = "failed"
          /\ briefing.topic = IF inputData.topic = NoText THEN <<"unknown">>
                              ELSE inputData.topic
          /\ briefing.metadata.confidence = 0
          /\ briefing.metadata.dataQuality = "limited"
          /\ NoClaimsKept
          /\ briefing.trendAnalysis.predictions = << >>
          /\ briefing.trendAnalysis.relatedTrends = << >>
    /\ (stage = "failed" /\ ~inputData.present) => briefing.topic = <<"unknown">>

C3_Witness ==
    /\ ErrorFrom("News fetch failed: ")
    /\ inputData.topic = NoText
    /\ briefing.topic = <<"unknown">>

AllRaised ==
    /\ Len(factCheckCalls) > 0
    /\ \A k \in 1..Len(factCheckCalls) : factCheckCalls[k].state = "raised"

\* C4: when every fact-check call raises and the news, sentiment and trend
\* calls return, the run ends on the non-fallback path: confidence 0.85, the
\* news, sentiment and trend sections built from the three results, no
\* verified and no disputed claim, misinformation risk "low"; a run with a
\* raised fact-check call fails only by its trend call.
C4_FaultIsolation ==
    /\ (stage = "done" /\ AllRaised) =>
          /\ briefing.metadata.confidence = (85 * Unit) \div 100
          /\ briefing.newsAnalysis.summary = newsResult.summary
          /\ briefing.newsAnalysis.sourceCount = newsResult.articleCount
          /\ briefing.sentimentAnalysis.overallSentiment
                = sentimentResult.overallSentiment
          /\ briefing.trendAnalysis.currentTrend = trendResult.trendDirection
          /\ NoClaimsKept
          /\ briefing.factChecking.misinformationRisk = "low"
    /\ (stage = "failed" /\ AnyCall("raised")) =>
          ErrorFrom("Trend analysis failed: ")

C4_Witness ==
    /\ stage = "done"
    /\ AllRaised
    /\ Len(factCheckCalls) = 3
    /\ newsResult.articleCount > 0
    /\ sentimentResult.confidence > 0
    /\ trendResult.momentum > 0
    /\ briefing.metadata.confidence = (85 * Unit) \div 100

StageOrder == <<"fetching-news", "analyzing-sentiment", "fact-checking",
                "analyzing-trends", "structuring-result", "done">>

\* the stages entered so far are the first of StageOrder, then maybe failed
InOrder(entered) ==
    \E n \in 0..Len(StageOrder) :
        \/ entered = SubSeq(StageOrder, 1, n)
        \/ entered = Append(SubSeq(StageOrder, 1, n), "failed")

HardStops == {"News fetch failed: ", "Sentiment analysis failed: ",
              "Trend analysis failed: "}

\* C5, as stated: the stages are entered only in the order fetching-news,
\* analyzing-sentiment, fact-checking, analyzing-trends, structuring-result,
\* done; failed is entered only from a raised news, sentiment or trend
\* call; and once failed is entered no further leaf step is called.
C5_StagesAsStated ==
    [][/\ InOrder(log')
       /\ (stage' = "failed" /\ stage # "failed") => Head(error') \in HardStops
       /\ stage = "failed" => toolCalls' = toolCalls]_vars

\* C5, amended: the stages are entered only in that order; failed is entered
\* only from absent input data, before any leaf step is called, or from a
\* raised news, sentiment or trend call, never from a raised fact-check
\* call; and once failed is entered no further leaf step is called.
C5_Stages ==
    [][/\ InOrder(log')
       /\ (stage' = "failed" /\ stage # "failed") =>
             \/ Head(error') \in HardStops
             \/ ~inputData.present /\ stage = "start" /\ toolCalls = << >>
       /\ stage = "failed" => toolCalls' = toolCalls]_vars

C5_Witness ==
    /\ stage = "failed"
    /\ ~inputData.present
    /\ error = <<"Input data required">>
    /\ toolCalls = << >>

\* C6: the trend step is never called while a fact-check call of the same
\* run is still in flight.
C6_JointAwait ==
    AnyCall("pending") =>
        ~(\E i \in 1..Len(toolCalls) : toolCalls[i] = "trend")

\* C7: when one of the fact-check calls raises, the run's fact-check result
\* set is empty, what the other calls returned being dropped; the run is at
\* its trend stage or past it, it has not failed by the fact-check, and the
\* briefing it returns holds no verified and no disputed claim.
C7_AllOrNothing ==
    AnyCall("raised") =>
        /\ factCheckResults = << >>
        /\ stage \in {"analyzing-trends", "done", "failed"}
        /\ stage = "failed" => ErrorFrom("Trend analysis failed: ")
        /\ stage = "done" => NoClaimsKept

C7_Witness ==
    /\ stage = "done"
    /\ Len(factCheckCalls) >= 2
    /\ factCheckCalls[1].state = "returned"
    /\ factCheckCalls[2].state = "raised"
    /\ factCheckResults = << >>
    /\ briefing.metadata.confidence = (85 * Unit) \div 100

---------------------------------------------------------------------------
(* Properties of the tools called on their own, checked under DirectSpec *)

\* the keys of each tool's output schema
Fields(tool) ==
    CASE tool = "news" ->
            {"topic", "summary", "timestamp", "articleCount", "sources",
             "language"}
      [] tool = "sentiment" ->
            {"overallSentiment", "sentimentScore", "emotions", "subjectivity",
             "confidence", "keyPhrases", "summary"}
      [] tool = "fact-check" ->
            {"claim", "verdict", "confidence", "evidence", "explanation",
             "relatedClaims", "checkDate"}
      [] tool = "trend" ->
            {"topic", "timeframe", "trendDirection", "momentum", "keyDrivers",
             "predictions", "relatedTopics", "visualData", "analysis"}

\* the free text of a result, where a fallback explains itself
Explanation(d) ==
    CASE d.tool = "news" -> d.value.summary
      [] d.tool = "sentiment" -> d.value.summary
      [] d.tool = "fact-check" -> d.value.explanation
      [] d.tool = "trend" -> d.value.analysis

\* the result is the tool's fallback record, every key of the schema in it
IsFallback(d) ==
    /\ DOMAIN d.value = Fields(d.tool)
    /\ CASE d.tool = "news" ->
               /\ d.value.articleCount = 0
               /\ d.value.sources = <<"Error - No sources available">>
         [] d.tool = "sentiment" ->
               /\ d.value.overallSentiment = "neutral"
               /\ d.value.confidence = 0
               /\ \A e \in DOMAIN d.value.emotions : d.value.emotions[e] = 0
         [] d.tool = "fact-check" ->
               /\ d.value.verdict = "unverifiable"
               /\ d.value.confidence = 0
               /\ d.value.evidence = << >>
         [] d.tool = "trend" ->
               /\ d.value.trendDirection = "stable"
               /\ d.value.momentum = 0
               /\ d.value.predictions = << >>

\* the required field of the call's context
RequiredField(d) ==
    CASE d.tool = "news" -> d.context.topic
      [] d.tool = "sentiment" -> d.context.text
      [] d.tool = "fact-check" -> d.context.claim
      [] d.tool = "trend" -> d.context.topic

\* the characters of the answer's content
ContentChars(d) ==
    IF d.tool = "sentiment" /\ d.response.content # NoText
    THEN d.response.content.chars ELSE d.response.content

\* the call ended on a missing credential or an empty input (no fetch), a
\* rejected fetch, a non-2xx response, a body without choices or message,
\* or an empty content
FailedCall(d) ==
    \/ d.response = Unasked
    \/ d.response.net = "rejected"
    \/ ~Ok(d.response.status)
    \/ d.response.shape # "message"
    \/ ~d.response.hasContent
    \/ IsBlank(ContentChars(d))

\* the sentiment answer is text that is no JSON, or JSON of another structure
Unparsed(d) ==
    d.tool = "sentiment" /\ ~FailedCall(d) /\ ~d.response.content.valid

Misshapen(d) ==
    /\ d.tool = "sentiment" /\ ~FailedCall(d) /\ d.response.content.valid
    /\ \/ d.response.content.isNull
       \/ InvalidStructure(d.response.content.obj)

Called == direct.state # "idle" /\ direct.context.present

C9_NoRequestOnEmpty ==
    (Called /\ IsBlank(RequiredField(direct))) =>
        requests = << >> /\ direct.state # "awaiting"

\* the message each tool gives for an empty required field
EmptyMessage(tool) ==
    CASE tool = "sentiment" -> MsgTextEmpty
      [] tool = "fact-check" -> MsgClaimEmpty
      [] tool = "trend" -> MsgTopicEmpty
      [] tool = "news" -> NoText

\* C10, as stated: with the credential absent, for every input, the step
\* issues no HTTP request and returns its fallback record, whose explanation
\* is the credential-missing message.
C10_NoCredentialAsStated ==
    (Called /\ ~apiKey) =>
        /\ requests = << >>
        /\ direct.state = "returned"
        /\ IsFallback(direct)
        /\ Includes(Explanation(direct), MsgNoKey)

\* C10, amended: with the credential absent, for every input, the step
\* issues no HTTP request and returns its fallback record; its explanation
\* is the credential-missing message, except that the sentiment, fact-check
\* and trend steps, called with a blank required field, explain the empty
\* input instead (they check the input before the credential).
C10_NoCredential ==
    (Called /\ ~apiKey) =>
        /\ requests = << >>
        /\ direct.state = "returned"
        /\ IsFallback(direct)
        /\ IF direct.tool # "news" /\ IsBlank(RequiredField(direct))
           THEN /\ Includes(Explanation(direct), EmptyMessage(direct.tool))
                /\ ~Includes(Explanation(direct), MsgNoKey)
           ELSE Includes(Explanation(direct), MsgNoKey)

C10_Witness ==
    /\ ~apiKey
    /\ direct.tool = "sentiment"
    /\ direct.state = "returned"
    /\ IsBlank(direct.context.text)
    /\ Includes(direct.value.summary, MsgTextEmpty)

---------------------------------------------------------------------------
(* Requests of a run, checked under Spec *)

\* how often x occurs in xs
Count(xs, x) == Len(SelectSeq(xs, LAMBDA y : y = x))

\* C11: no retries: each tool call of a run issues at most one HTTP request,
\* so a run issues at most one news, one sentiment, three fact-check and one
\* trend request, six in all; and the run enters failed at most once.
C11_NoRetries ==
    /\ \A tool \in Tools : Count(requests, tool) <= Count(toolCalls, tool)
    /\ Count(toolCalls, "news") <= 1
    /\ Count(toolCalls, "sentiment") <= 1
    /\ Count(toolCalls, "fact-check") <= 3
    /\ Count(toolCalls, "trend") <= 1
    /\ Len(requests) <= 6
    /\ Count(log, "failed") <= 1

C11_Witness ==
    /\ stage = "done"
    /\ requests = <<"news", "sentiment", "fact-check", "fact-check",
                    "fact-check", "trend">>
    /\ \E k \in 1..3 : factCheckCalls[k].state = "raised"

\* the claims of the fact-check calls the run started
ClaimsChecked == [k \in 1..Len(factCheckCalls) |-> factCheckCalls[k].context.claim]

\* the claims c1, c2, .. a generated digest quotes, up to the n-th
Quoted(n) == [k \in 1..n |-> <<"c", ToString(k)>>]

\* the sentiment call has returned: step 3 has extracted the claims
Extracted == sentimentResult # NoResult

\* the digests a news call of a run can return, and the quoted stretches
\* the claims pattern finds in each
Digests ==
    {NewsExecute(NewsContext(i), key, r).value.summary :
        i \in Inputs \ {NoInput}, key \in BOOLEAN,
        r \in {Rejected, ErrorResponse(404, <<DQ, "e", DQ>>)}
              \cup {Answer(t) : t \in NewsTexts}}

QuotedIn == [s \in Digests |-> MatchQuoted(s)]

\* C12: a run issues as many fact-check calls as the digest has quoted
\* stretches, three at most; their claims are the first matches in order of
\* appearance, quote characters removed (c1, c2, c3 of a generated digest);
\* with no match no fact-check call is issued, the result set stays empty
\* and the run goes on to the trend call without failing by it.
C12_ClaimFanOut ==
    Extracted =>
        \E found \in {QuotedIn[newsResult.summary]} :
            /\ Len(factCheckCalls) = IF Len(found) < 3 THEN Len(found) ELSE 3
            /\ Count(toolCalls, "fact-check") = Len(factCheckCalls)
            /\ \A k \in 1..Len(factCheckCalls) :
                  /\ ClaimsChecked[k] = StripQuotes(found[k])
                  /\ \A i \in 1..Len(ClaimsChecked[k]) : ~IsQuote(ClaimsChecked[k][i])
            /\ \A n \in 0..MaxQuoted :
                  newsResult.summary = QuotedDigest(n) =>
                      ClaimsChecked = Quoted(IF n < 3 THEN n ELSE 3)
            /\ found = << >> =>
                  /\ factCheckResults = << >>
                  /\ Count(toolCalls, "trend") = 1
                  /\ stage = "failed" => ErrorFrom("Trend analysis failed: ")

C12_Witness ==
    /\ Extracted
    /\ newsResult.summary = QuotedDigest(MaxQuoted)
    /\ ClaimsChecked = Quoted(3)
    /\ stage = "done"

\* a run whose digest quotes nothing
C12_WitnessNone ==
    /\ Extracted
    /\ newsResult.summary = QuotedDigest(0)
    /\ factCheckCalls = << >>
    /\ stage = "done"

---------------------------------------------------------------------------
(* Properties of what the tools read out of an answer, checked under       *)
(* DirectSpec                                                              *)

\* the call of the tool returned after the endpoint answered with a content
\* the tool could use
Succeeded(tool) ==
    /\ Called
    /\ direct.tool = tool
    /\ direct.state = "returned"
    /\ ~FailedCall(direct)

\* the answer's text holds w, whatever the case of its letters
Says(w) == Includes(ToLowerCase(direct.response.content), ToLowerCase(w))

\* C13: every fact-check result, on the success path and on the fallback
\* path, has a confidence within [0,1].
C13_ConfidenceInRange ==
    (Called /\ direct.tool = "fact-check" /\ direct.state = "returned") =>
        /\ direct.value.confidence >= 0
        /\ direct.value.confidence <= Unit

\* C14: the verdict is the lower-cased enum value of the first
\* "verdict: <value>" of the answer, whatever its case, "unverifiable" when
\* there is none; the confidence is the first "confidence: <number>" divided
\* by 100, 0.5 when there is none; each is found or defaulted whether or not
\* the other is.
C14_VerdictAndConfidence ==
    Succeeded("fact-check") =>
        /\ direct.value.verdict \in DOMAIN VerdictWords
        /\ ~Says(<<"v", "e", "r", "d", "i", "c", "t", ":">>) => direct.value.verdict = "unverifiable"
        /\ ~Says(<<"c", "o", "n", "f", "i", "d", "e", "n", "c", "e", ":">>) => direct.value.confidence = Unit \div 2
        /\ Says(<<"V", "e", "r", "d", "i", "c", "t", ":", " ", "m", "o", "s", "t", "l", "y", "_", "f", "a", "l", "s", "e", "\n", "C", "o", "n", "f", "i", "d", "e", "n", "c", "e", ":", " ", "7", "2">>) =>
              /\ direct.value.verdict = "mostly_false"
              /\ direct.value.confidence = (72 * Unit) \div 100
        /\ Says(<<"V", "e", "r", "d", "i", "c", "t", ":", " ", "T", "R", "U", "E", "\n", "C", "o", "n", "f", "i", "d", "e", "n", "c", "e", ":", " ", "9", "0">>) =>
              /\ direct.value.verdict = "true"
              /\ direct.value.confidence = (90 * Unit) \div 100
        /\ Says(<<"C", "o", "n", "f", "i", "d", "e", "n", "c", "e", ":", " ", "5", "%", " ", "v", "e", "r", "d", "i", "c", "t", ":", " ", "m", "a", "y", "b", "e", ".", " ", "v", "e", "r", "d", "i", "c", "t", ":", " ", "M", "i", "x", "e", "d", ",", " ", "V", "E", "R", "D", "I", "C", "T", ":", " ", "t", "r", "u", "e">>) =>
              /\ direct.value.verdict = "mixed"
              /\ direct.value.confidence = (5 * Unit) \div 100
        /\ direct.response.content = <<"v", "e", "r", "d", "i", "c", "t", ":", " ", "f", "a", "l", "s", "e">> =>
              /\ direct.value.verdict = "false"
              /\ direct.value.confidence = Unit \div 2
        /\ direct.response.content = <<"C", "o", "n", "f", "i", "d", "e", "n", "c", "e", ":", " ", "0", ".", "9">> =>
              /\ direct.value.verdict = "unverifiable"
              /\ direct.value.confidence = (9 * Unit) \div (10 * 100)

C14_Witness ==
    /\ Succeeded("fact-check")
    /\ Says(<<"C", "o", "n", "f", "i", "d", "e", "n", "c", "e", ":", " ", "5", "%", " ", "v", "e", "r", "d", "i", "c", "t", ":", " ", "m", "a", "y", "b", "e", ".", " ", "v", "e", "r", "d", "i", "c", "t", ":", " ", "M", "i", "x", "e", "d", ",", " ", "V", "E", "R", "D", "I", "C", "T", ":", " ", "t", "r", "u", "e">>)
    /\ direct.value.verdict = "mixed"
    /\ direct.value.confidence = (5 * Unit) \div 100

\* the quoted part of an evidence item speaks for the claim
Supports(quote) ==
    \/ Includes(ToLowerCase(quote), <<"s", "u", "p", "p", "o", "r", "t">>)
    \/ Includes(ToLowerCase(quote), <<"c", "o", "n", "f", "i", "r", "m">>)

\* C15: each "source: X - Y" line of the answer yields one evidence item, in
\* the order of the lines; an item is supporting exactly when its Y part
\* holds "support" or "confirm", whatever the case; every item has
\* credibility 0.8; the list returned holds the first 5 items at most.
C15_Evidence ==
    Succeeded("fact-check") =>
        \E evidence \in {direct.value.evidence} :
            /\ Len(evidence) <= 5
            /\ \A k \in 1..Len(evidence) :
                  /\ evidence[k].credibility = (8 * Unit) \div 10
                  /\ evidence[k].supporting <=> Supports(evidence[k].quote)
            /\ ~Says(<<"s", "o", "u", "r", "c", "e", ":">>) => evidence = << >>
            /\ Says(<<"S", "o", "u", "r", "c", "e", ":", " ", "R", "e", "u", "t", "e", "r", "s", " ", "-", " ", "c", "o", "n", "f", "i", "r", "m", "s", " ", "t", "h", "e", " ", "c", "l", "a", "i", "m", "\n", "S", "o", "u", "r", "c", "e", ":", " ", "A", "P", " ", "-", " ", "d", "e", "n", "i", "e", "s", " ", "i", "n", "v", "o", "l", "v", "e", "m", "e", "n", "t">>) =>
                  /\ Len(evidence) = 2
                  /\ evidence[1].source = <<"R", "e", "u", "t", "e", "r", "s">>
                  /\ evidence[1].supporting
                  /\ evidence[2].source = <<"A", "P">>
                  /\ ~evidence[2].supporting
            /\ \A n \in 1..MaxSources :
                  direct.response.content = SourceLines(n) =>
                      /\ Len(evidence) = IF n < 5 THEN n ELSE 5
                      /\ \A k \in 1..Len(evidence) :
                            /\ evidence[k].source = <<"s", ToString(k)>>
                            /\ evidence[k].supporting <=> k % 2 = 1

C15_Witness ==
    /\ Succeeded("fact-check")
    /\ direct.response.content = SourceLines(MaxSources)
    /\ Len(direct.value.evidence) = 5
    /\ direct.value.evidence[1].supporting
    /\ ~direct.value.evidence[2].supporting

\* C16, as stated: an answer that holds "declining" anywhere gives the trend
\* direction "declining"; an answer that holds none of "rising",
\* "declining", "volatile" gives "stable".
C16_DecliningAsStated ==
    Succeeded("trend") =>
        /\ Says(<<"d", "e", "c", "l", "i", "n", "i", "n", "g">>) => direct.value.trendDirection = "declining"
        /\ (~Says(<<"r", "i", "s", "i", "n", "g">>) /\ ~Says(<<"d", "e", "c", "l", "i", "n", "i", "n", "g">>) /\ ~Says(<<"v", "o", "l", "a", "t", "i", "l", "e">>)) =>
              direct.value.trendDirection = "stable"

\* C16, amended: an answer that holds "declining" and does not hold "rising"
\* gives the trend direction "declining", and one that holds both gives
\* "rising"; an answer that holds none of "rising", "declining", "volatile"
\* gives "stable".
C16_Declining ==
    Succeeded("trend") =>
        /\ (Says(<<"d", "e", "c", "l", "i", "n", "i", "n", "g">>) /\ ~Says(<<"r", "i", "s", "i", "n", "g">>)) => direct.value.trendDirection = "declining"
        /\ (Says(<<"d", "e", "c", "l", "i", "n", "i", "n", "g">>) /\ Says(<<"r", "i", "s", "i", "n", "g">>)) => direct.value.trendDirection = "rising"
        /\ (~Says(<<"r", "i", "s", "i", "n", "g">>) /\ ~Says(<<"d", "e", "c", "l", "i", "n", "i", "n", "g">>) /\ ~Says(<<"v", "o", "l", "a", "t", "i", "l", "e">>)) =>
              direct.value.trendDirection = "stable"

C16_Witness ==
    /\ Succeeded("trend")
    /\ Says(<<"d", "e", "c", "l", "i", "n", "i", "n", "g">>)
    /\ Says(<<"v", "o", "l", "a", "t", "i", "l", "e">>)
    /\ ~Says(<<"r", "i", "s", "i", "n", "g">>)
    /\ direct.value.trendDirection = "declining"

\* C17: the trend direction is decided by which keywords the answer holds,
\* whatever their case and their place in the text, in the order rising,
\* declining, volatile, and is stable when it holds none.
C17_Priority ==
    Succeeded("trend") =>
        /\ direct.value.trendDirection =
              IF Says(<<"r", "i", "s", "i", "n", "g">>) THEN "rising"
              ELSE IF Says(<<"d", "e", "c", "l", "i", "n", "i", "n", "g">>) THEN "declining"
              ELSE IF Says(<<"v", "o", "l", "a", "t", "i", "l", "e">>) THEN "volatile"
              ELSE "stable"
        /\ direct.response.content = <<"D", "e", "c", "l", "i", "n", "i", "n", "g", ",", " ", "t", "h", "e", "n", " ", "r", "i", "s", "i", "n", "g">> => direct.value.trendDirection = "rising"
        /\ direct.response.content = <<"V", "o", "l", "a", "t", "i", "l", "e", " ", "a", "n", "d", " ", "D", "E", "C", "L", "I", "N", "I", "N", "G">> => direct.value.trendDirection = "declining"
        /\ direct.response.content = <<"v", "o", "l", "a", "t", "i", "l", "e", " ", "b", "u", "t", " ", "R", "i", "s", "i", "n", "g">> => direct.value.trendDirection = "rising"
        /\ direct.response.content = <<"V", "O", "L", "A", "T", "I", "L", "E">> => direct.value.trendDirection = "volatile"

C17_Witness ==
    /\ Succeeded("trend")
    /\ direct.response.content = <<"D", "e", "c", "l", "i", "n", "i", "n", "g", ",", " ", "t", "h", "e", "n", " ", "r", "i", "s", "i", "n", "g">>
    /\ direct.value.trendDirection = "rising"

\* C18: the momentum of every trend result is within [-100,100]: on the
\* success path it is an integer of 20..79, whatever the answer's text, and
\* on every failure path the result has trend direction "stable", momentum
\* 0 and empty keyDrivers, predictions, relatedTopics and timeline.
C18_Momentum ==
    (Called /\ direct.tool = "trend" /\ direct.state = "returned") =>
        /\ direct.value.momentum \in (0 - 100)..100
        /\ Succeeded("trend") =>
              /\ direct.value.momentum \in 20..79
              /\ Len(direct.value.visualData.timeline) = 7
        /\ FailedCall(direct) =>
              /\ direct.value.trendDirection = "stable"
              /\ direct.value.momentum = 0
              /\ direct.value.keyDrivers = << >>
              /\ direct.value.predictions = << >>
              /\ direct.value.relatedTopics = << >>
              /\ direct.value.visualData.timeline = << >>

\* the greatest momentum, on an answer whose text says "declining"
C18_Witness ==
    /\ Succeeded("trend")
    /\ direct.value.trendDirection = "declining"
    /\ direct.value.momentum = 79

\* the messages of the status classes, and the prefix of each tool's
\* passthrough message
MsgInvalidKey ==
    <<"Invalid Perplexity API key. Please check your PERPLEXITY_API_KEY environment variable.">>
MsgRateLimit == <<"Rate limit exceeded. Please wait a moment and try again.">>
MsgServerError == <<"Perplexity API server error. Please try again later.">>

ApiErrorPrefix(tool) ==
    CASE tool = "news" -> "Perplexity API error: "
      [] tool = "sentiment" -> "Sentiment analysis API error: "
      [] tool = "fact-check" -> "Fact-check API error: "
      [] tool = "trend" -> "Trend analysis API error: "

\* the passthrough message of the call: the status and the body
Passthrough(d) ==
    <<ApiErrorPrefix(d.tool), ToString(d.response.status), " - ">>
    \o d.response.errorText

\* the status messages the result's explanation carries
Carried(d) ==
    {m \in {MsgInvalidKey, MsgRateLimit, MsgServerError, Passthrough(d)} :
        Includes(Explanation(d), m)}

\* the tool got a response with a non-2xx status
Refused == Called /\ direct.state = "returned"
           /\ direct.response.net = "response" /\ ~Ok(direct.response.status)

\* C19: on a non-2xx status each tool returns its fallback record, which
\* carries exactly one message: for 401 the credential-invalid message, for
\* 429 the rate-limit message, for a status >= 500 the server-error message
\* and for every other status the passthrough with the status and the body.
C19_StatusClasses ==
    Refused =>
        /\ IsFallback(direct)
        /\ Carried(direct) =
              {IF direct.response.status = 401 THEN MsgInvalidKey
               ELSE IF direct.response.status = 429 THEN MsgRateLimit
               ELSE IF direct.response.status >= 500 THEN MsgServerError
               ELSE Passthrough(direct)}

C19_Witness ==
    /\ Refused
    /\ direct.tool = "trend"
    /\ direct.response.status = 404
    /\ direct.response.errorText # NoText
    /\ Includes(direct.value.analysis, Passthrough(direct))

\* a status of the server-error class other than 500
C19_WitnessServer ==
    /\ Refused
    /\ direct.tool = "sentiment"
    /\ direct.response.status = 503
    /\ Includes(direct.value.summary, MsgServerError)

\* a sentiment call has returned
SentimentReturned ==
    Called /\ direct.tool = "sentiment" /\ direct.state = "returned"

\* the fixed default record of a parse failure
IsParseDefault(v) ==
    /\ DOMAIN v = Fields("sentiment")
    /\ v.overallSentiment = "neutral"
    /\ v.emotions = [joy |-> Unit \div 2, trust |-> Unit \div 2,
                     anger |-> Unit \div 10, fear |-> Unit \div 10,
                     sadness |-> Unit \div 10, surprise |-> Unit \div 10]
    /\ v.confidence = (7 * Unit) \div 10

\* the causes of a hard failure the claim lists: missing credential, empty
\* text, non-2xx response, missing choice or content, or a parsed value
\* lacking overallSentiment or emotions
ListedCause(d) ==
    \/ ~apiKey
    \/ IsBlank(d.context.text)
    \/ d.response.net = "response" /\ ~Ok(d.response.status)
    \/ /\ d.response.net = "response" /\ Ok(d.response.status)
       /\ \/ d.response.shape \in {"no_choices", "empty_choices", "no_message"}
          \/ /\ d.response.shape = "message"
             /\ ~d.response.hasContent \/ IsBlank(ContentChars(d))
    \/ Misshapen(d)

\* no response, or one whose body is no JSON: fetch or response.json() threw
Unanswered(d) ==
    \/ d.response.net = "rejected"
    \/ d.response.net = "response" /\ Ok(d.response.status)
       /\ d.response.shape = "unparseable"

\* C20, as stated: a content that is not empty and is no valid JSON gives
\* the fixed default record (joy 0.5, trust 0.5, the other emotions 0.1,
\* confidence 0.7), not the hard-failure record; the hard-failure record is
\* returned only for a missing credential, an empty text, a non-2xx
\* response, a missing choice or content, or a parsed value lacking
\* overallSentiment or emotions.
C20_ParseFailureAsStated ==
    SentimentReturned =>
        /\ Unparsed(direct) =>
              IsParseDefault(direct.value) /\ ~IsFallback(direct)
        /\ IsFallback(direct) => ListedCause(direct)

\* C20, amended: a content that is not empty and is no valid JSON gives the
\* fixed default record, not the hard-failure record; the hard-failure
\* record is returned only for the causes listed, or when the fetch is
\* rejected or the response body cannot be read as JSON.
C20_ParseFailure ==
    SentimentReturned =>
        /\ Unparsed(direct) =>
              IsParseDefault(direct.value) /\ ~IsFallback(direct)
        /\ IsFallback(direct) <=> (ListedCause(direct) \/ Unanswered(direct))

C20_Witness ==
    /\ SentimentReturned
    /\ Unparsed(direct)
    /\ IsParseDefault(direct.value)
    /\ direct.value.confidence = (7 * Unit) \div 10


---------------------------------------------------------------------------
(* Properties of the record of step 5, checked under Spec *)

\* the run returned the record of step 5, not the top-level fallback
Completed == stage = "done"

\* C21: on the non-fallback path the risk level is "high" exactly when the
\* sentiment's fear is above 0.6, "medium" exactly when fear is at most 0.6
\* and anger is above 0.5, and "low" otherwise; 0.6 and 0.5 themselves do
\* not trigger.
C21_RiskLevel ==
    Completed =>
        \E e \in {sentimentResult.emotions} :
            /\ briefing.executiveSummary.riskLevel = "high"
                  <=> e.fear > (6 * Unit) \div 10
            /\ briefing.executiveSummary.riskLevel = "medium"
                  <=> (e.fear <= (6 * Unit) \div 10 /\ e.anger > Unit \div 2)
            /\ briefing.executiveSummary.riskLevel = "low"
                  <=> (e.fear <= (6 * Unit) \div 10 /\ e.anger <= Unit \div 2)

\* fear and anger both on their thresholds: low
C21_Witness ==
    /\ Completed
    /\ sentimentResult.emotions.fear = (6 * Unit) \div 10
    /\ sentimentResult.emotions.anger = Unit \div 2
    /\ briefing.executiveSummary.riskLevel = "low"

\* fear above its threshold wins over anger above its own: high
C21_WitnessHigh ==
    /\ Completed
    /\ sentimentResult.emotions.fear > (6 * Unit) \div 10
    /\ sentimentResult.emotions.anger > Unit \div 2
    /\ briefing.executiveSummary.riskLevel = "high"

\* fear on its threshold, anger above its own: medium
C21_WitnessMedium ==
    /\ Completed
    /\ sentimentResult.emotions.fear = (6 * Unit) \div 10
    /\ sentimentResult.emotions.anger > Unit \div 2
    /\ briefing.executiveSummary.riskLevel = "medium"


\* some fact-check result the run retained has verdict v
Retained(v) ==
    \E k \in 1..Len(factCheckResults) : factCheckResults[k].verdict = v

\* C22: the misinformation risk is "high" exactly when a retained
\* fact-check result has the verdict "false", and "low" otherwise, a
\* "mostly_false" verdict alone leaving it "low"; it is never "medium", the
\* top-level fallback record having "low".
C22_MisinformationRisk ==
    /\ Ended => briefing.factChecking.misinformationRisk \in {"high", "low"}
    /\ Completed =>
          (briefing.factChecking.misinformationRisk = "high" <=> Retained("false"))
    /\ stage = "failed" => briefing.factChecking.misinformationRisk = "low"

\* mostly_false alone: low
C22_Witness ==
    /\ Completed
    /\ Retained("mostly_false")
    /\ ~Retained("false")
    /\ briefing.factChecking.misinformationRisk = "low"

C22_WitnessHigh ==
    /\ Completed
    /\ Retained("false")
    /\ Retained("true")
    /\ briefing.factChecking.misinformationRisk = "high"


\* a news, sentiment or trend call of the run raised
HardStopRaised == error # NoError /\ Head(error) \in HardStops

\* the confidence is 0.85 or 0, and 0 on the top-level fallback alone
ConfidenceValues ==
    Ended =>
        /\ briefing.metadata.confidence \in {(85 * Unit) \div 100, 0}
        /\ briefing.metadata.confidence = 0 <=> stage = "failed"

\* C23, as stated: on every run in which no hard-stop stage raises the
\* confidence is 0.85; over all runs it is 0.85 or 0, and 0 only on the
\* top-level fallback record.
C23_ConfidenceAsStated ==
    /\ (Ended /\ ~HardStopRaised) =>
          briefing.metadata.confidence = (85 * Unit) \div 100
    /\ ConfidenceValues

\* C23, amended: on every run with input data in which no hard-stop stage
\* raises the confidence is 0.85, and a run without input data returns the
\* top-level fallback with confidence 0; over all runs it is 0.85 or 0, and 0
\* only on the top-level fallback record.
C23_Confidence ==
    /\ (Ended /\ inputData.present /\ ~HardStopRaised) =>
          briefing.metadata.confidence = (85 * Unit) \div 100
    /\ (Ended /\ ~inputData.present) =>
          /\ ~HardStopRaised
          /\ briefing.metadata.confidence = 0
    /\ ConfidenceValues

\* a run whose every tool fell back and whose fact-check call raised
C23_Witness ==
    /\ Completed
    /\ ~apiKey
    /\ AnyCall("raised")
    /\ briefing.metadata.confidence = (85 * Unit) \div 100


---------------------------------------------------------------------------
(* Properties of concurrent invocations, checked under PairSpec *)

\* what an invocation with this input is after the outcomes heard, when it
\* runs on its own
RECURSIVE Alone(_, _)
Alone(input, heard) ==
    IF heard = << >> THEN NewRun(input)
    ELSE Advance(Alone(input, SubSeq(heard, 1, Len(heard) - 1)),
                 heard[Len(heard)])

\* C24: two invocations interleaved in any order do not interfere: the
\* variables and the briefing of each are what the invocation has when it
\* runs alone with its own input and the same outcomes of its own calls.
C24_NoInterference ==
    \A i \in DOMAIN runs : runs[i] = Alone(runs[i].inputData, runs[i].heard)

\* both invocations have returned, each the briefing of its own topic
C24_Witness ==
    /\ DOMAIN runs = 1..2
    /\ runs[1].stage = "done"
    /\ runs[2].stage = "done"
    /\ runs[1].briefing.topic = <<"A", "I">>
    /\ runs[2].briefing.topic = <<"E", "V">>
    /\ runs[1].newsResult # runs[2].newsResult
    /\ runs[1].factCheckResults # runs[2].factCheckResults

\* one invocation has returned while the other is still at an earlier step
C24_WitnessInterleaved ==
    /\ DOMAIN runs = 1..2
    /\ runs[2].stage = "done"
    /\ runs[1].stage = "analyzing-sentiment"
    /\ runs[1].inputData # runs[2].inputData



\* the news step returned the record it substitutes when its request fails
NewsFellBack ==
    /\ newsResult # NoResult
    /\ newsResult.articleCount = 0
    /\ newsResult.sources = <<"Error - No sources available">>

\* a topic that is not empty and holds no quote character
PlainTopic ==
    /\ inputData.topic # NoText
    /\ \A k \in 1..Len(inputData.topic) : ~IsQuote(inputData.topic[k])

\* C25: when the news step returns its fallback record instead of raising,
\* the run does not fail there: the sentiment tool is called next, the
\* digest being the fallback summary that quotes the topic; once sentiment
\* has returned, the first fact-check call has the topic itself as its
\* claim (for a non-empty topic without quote characters); the trend tool
\* is called after it, and a run that completes returns the non-fallback
\* briefing with newsAnalysis.sourceCount = 0.
C25_NewsFallbackContinues ==
    NewsFellBack =>
        /\ Len(toolCalls) >= 2 /\ toolCalls[2] = "sentiment"
        /\ stage # "fetching-news"
        /\ Len(newsResult.summary) >= Len(inputData.topic) + 3
        /\ SubSeq(newsResult.summary, 1, Len(inputData.topic) + 3)
              = <<"Unable to fetch news for ", DQ>> \o inputData.topic \o <<DQ>>
        /\ stage = "failed" =>
              \/ ErrorFrom("Sentiment analysis failed: ")
              \/ ErrorFrom("Trend analysis failed: ")
        /\ (sentimentResult # NoResult /\ PlainTopic) =>
              /\ Len(factCheckCalls) >= 1
              /\ factCheckCalls[1].context.claim = inputData.topic
        /\ Completed =>
              /\ toolCalls[Len(toolCalls)] = "trend"
              /\ briefing = Result(inputData, newsResult, sentimentResult,
                                   factCheckResults, trendResult)
              /\ briefing # FallbackResult(inputData)
              /\ briefing.newsAnalysis.sourceCount = 0

\* a run on the topic AI whose news step fell back has completed: the topic
\* was fact-checked and the briefing counts no source
C25_Witness ==
    /\ NewsFellBack
    /\ Completed
    /\ inputData.topic = <<"A", "I">>
    /\ factCheckCalls[1].context.claim = <<"A", "I">>
    /\ briefing.newsAnalysis.sourceCount = 0
    /\ briefing.metadata.confidence # 0

\* a topic with an apostrophe: the claim checked is cut at it
C25_WitnessApostrophe ==
    /\ NewsFellBack
    /\ Completed
    /\ inputData.topic = <<"A", "I", SQ, "s">>
    /\ factCheckCalls[1].context.claim = <<"A", "I">>



\* C26: a run that completes reports the data quality "fair": the news
\* record has exactly one source whether the news step succeeded or fell
\* back, so "excellent" and "good" are never reported; a run that fails
\* reports "limited".
C26_DataQuality ==
    /\ newsResult # NoResult => Len(newsResult.sources) = 1
    /\ Completed => briefing.metadata.dataQuality = "fair"
    /\ stage = "failed" => briefing.metadata.dataQuality = "limited"
    /\ Ended => briefing.metadata.dataQuality \in {"fair", "limited"}

\* a completed run whose news step succeeded, with more than five articles
\* asked for, reports "fair"
C26_Witness ==
    /\ Completed
    /\ newsResult.sources = <<"Perplexity AI Analysis">>
    /\ newsResult.articleCount > 5
    /\ briefing.metadata.dataQuality = "fair"

\* a completed run whose news step fell back reports "fair" as well
C26_WitnessFallback ==
    /\ Completed
    /\ NewsFellBack
    /\ briefing.metadata.dataQuality = "fair"

\* a failed run reports "limited"
C26_WitnessLimited ==
    /\ stage = "failed"
    /\ briefing.metadata.dataQuality = "limited"



\* the retained fact-check results whose verdict is one of vs, by position
Positions(vs) ==
    {k \in 1..Len(factCheckResults) : factCheckResults[k].verdict \in vs}

\* the j-th smallest position of ps
Nth(ps, j) == CHOOSE k \in ps : Cardinality({m \in ps : m < k}) = j - 1

\* the claims of the retained results at the positions ps, in call order
ClaimsAt(ps) ==
    [j \in 1..Cardinality(ps) |-> factCheckResults[Nth(ps, j)].claim]

\* C27: in the briefing of a completed run verifiedClaims holds, in call
\* order, the claims of the retained results with verdict true or
\* mostly_true and disputedClaims those with verdict false or mostly_false,
\* so a result is listed at most once and one with verdict mixed or
\* unverifiable is not listed; in every briefing the two lists together are
\* no longer than the number of fact-check calls issued, which is at most 3,
\* and misinformationRisk "high" implies that disputedClaims is not empty.
C27_ClaimLists ==
    /\ Completed =>
          /\ briefing.factChecking.verifiedClaims
                = ClaimsAt(Positions({"true", "mostly_true"}))
          /\ briefing.factChecking.disputedClaims
                = ClaimsAt(Positions({"false", "mostly_false"}))
    /\ Ended =>
          /\ Len(briefing.factChecking.verifiedClaims)
                + Len(briefing.factChecking.disputedClaims) <= Len(factCheckCalls)
          /\ Len(factCheckCalls) <= 3
          /\ briefing.factChecking.misinformationRisk = "high"
                => briefing.factChecking.disputedClaims # << >>

\* three results retained: one verified, one disputed, one listed nowhere
C27_Witness ==
    /\ Completed
    /\ Len(factCheckResults) = 3
    /\ Len(briefing.factChecking.verifiedClaims) = 1
    /\ Len(briefing.factChecking.disputedClaims) = 1
    /\ \E k \in 1..3 : factCheckResults[k].verdict \in {"mixed", "unverifiable"}

\* two disputed claims in call order, the risk high
C27_WitnessHigh ==
    /\ Completed
    /\ Len(factCheckResults) = 3
    /\ Len(briefing.factChecking.disputedClaims) = 2
    /\ briefing.factChecking.disputedClaims[1] = factCheckResults[1].claim
    /\ briefing.factChecking.disputedClaims[2] = factCheckResults[3].claim
    /\ briefing.factChecking.misinformationRisk = "high"



\* the record the sentiment tool substitutes on a hard failure: every
\* emotion 0, confidence 0
IsHardFailure(v) ==
    /\ DOMAIN v = Fields("sentiment")
    /\ v.overallSentiment = "neutral"
    /\ \A k \in 1..Len(EmotionNames) : v.emotions[EmotionNames[k]] = 0
    /\ v.confidence = 0

\* the sentiment step returned one of its two substitute records
SentimentSubstituted ==
    /\ sentimentResult # NoResult
    /\ IsParseDefault(sentimentResult) \/ IsHardFailure(sentimentResult)

\* C28: when the sentiment step returned its parse-failure default or its
\* hard-failure record and the run completes, the risk level is "low" and
\* emotionalDrivers is empty, the 0.5 of the default not passing the strict
\* filter; with such a sentiment record a briefing has the risk level
\* "medium" only when it is the fallback record of a failed run.
C28_DegradedSentiment ==
    SentimentSubstituted =>
        /\ Completed =>
              /\ briefing.executiveSummary.riskLevel = "low"
              /\ briefing.sentimentAnalysis.emotionalDrivers = << >>
        /\ (Ended /\ briefing.executiveSummary.riskLevel = "medium") =>
              /\ stage = "failed"
              /\ briefing = FallbackResult(inputData)

\* a completed run on the parse-failure default: joy and trust are 0.5 and
\* neither is listed
C28_Witness ==
    /\ Completed
    /\ IsParseDefault(sentimentResult)
    /\ sentimentResult.emotions.joy = Unit \div 2
    /\ briefing.executiveSummary.riskLevel = "low"
    /\ briefing.sentimentAnalysis.emotionalDrivers = << >>

\* a completed run on the hard-failure record
C28_WitnessHardFailure ==
    /\ Completed
    /\ IsHardFailure(sentimentResult)
    /\ briefing.executiveSummary.riskLevel = "low"

\* a substitute sentiment record, then a later step raises: the fallback
\* record carries "medium"
C28_WitnessMedium ==
    /\ stage = "failed"
    /\ SentimentSubstituted
    /\ briefing.executiveSummary.riskLevel = "medium"



\* how far a run in this stage has come
Rank(st) ==
    CASE st = "start" -> 0
      [] st = "fetching-news" -> 1
      [] st = "analyzing-sentiment" -> 2
      [] st = "fact-checking" -> 3
      [] st = "analyzing-trends" -> 4
      [] OTHER -> 5

\* the step carries the outcome of a call the run was awaiting
Heard ==
    \/ error' # error
    \/ stage = "fetching-news" /\ newsResult' # newsResult
    \/ stage = "analyzing-sentiment" /\ sentimentResult' # sentimentResult
    \/ /\ stage = "fact-checking"
       /\ \E k \in 1..Len(factCheckCalls) :
             /\ factCheckCalls[k].state = "pending"
             /\ factCheckCalls'[k].state # "pending"
    \/ stage = "analyzing-trends" /\ trendResult' # trendResult

\* C29: when every call the run makes settles, the run reaches done or
\* failed; it never goes back to an earlier stage, it returns one briefing,
\* at the moment it ends and never a second one, and it leaves a stage in
\* which it awaits a call only with the outcome of that call: nothing else
\* (no timeout, no cancellation) moves it on.
C29_Termination ==
    /\ <>Ended
    /\ [][/\ Rank(stage') >= Rank(stage)
          /\ Ended => (stage' = stage /\ briefing' = briefing)
          /\ (briefing' # NoResult) <=> (stage' \in {"done", "failed"})
          /\ (stage # "start" /\ stage' # stage) => Heard]_vars

\* a run has gone through every stage, with three fact-checks, and returned
C29_Witness ==
    /\ Completed
    /\ log = StageOrder
    /\ Len(factCheckCalls) = 3
    /\ briefing # NoResult

\* a run has ended in failed at its second step
C29_WitnessFailed ==
    /\ stage = "failed"
    /\ log = <<"fetching-news", "analyzing-sentiment", "failed">>
    /\ briefing # NoResult

============================================================================
